---- MODULE Spec2Model ----
(***************************************************************************)
(* The migration master worker of worker/migrationmaster/worker.go: the    *)
(* activation guard (waitForActiveMigration), the fortress lockdown, the   *)
(* phase driver loop of Worker.run with its nine phase handlers, and the   *)
(* minion wait (waitForMinions).  The facade, the fortress, the target     *)
(* controller, the watchers, the clock and the supervisor's Kill are the   *)
(* environment: every answer they can give is a nondeterministic choice.   *)
(*                                                                         *)
(* Time is counted in units of 30 seconds (minionWaitLogInterval).         *)
(***************************************************************************)
EXTENDS Integers, Sequences, FiniteSets, TLC

VARIABLES
    config,        \* argument of New: for each field, whether it is non-nil
    newErr,        \* error returned by New ("none" before New is called)
    pc,            \* position of the worker goroutine in run()
    dying,         \* catacomb.Dying() is closed (Kill was called)
    clock,         \* config.Clock.Now()
    status,        \* local variable status of run()
    status0,       \* the status waitForActiveMigration returned
    phase,         \* local variable phase of run()
    herr,          \* local variable err of the loop body of run()
    exit,          \* value returned by run(); "running" until it returns
    ctrl,          \* migration status record held by the source controller
    ticks,         \* migration watcher changes consumed by the waiting guard
    unlocks,       \* Guard.Unlock calls made by the waiting guard
    locked,        \* Guard.Lockdown has returned nil
    lastResp,      \* answer to the guard's last GetMigrationStatus call
    lockdownErr,   \* value Guard.Lockdown returned ("none" before the call)
    handlersRun,   \* phases whose handler was dispatched, in order
    setPhaseCalls, \* phases passed to Facade.SetPhase, in order
    setPhaseOK,    \* number of SetPhase calls that returned nil
    calls,         \* facade/target/dial calls made by the handlers, in order
    serialized,    \* local variable serialized of doIMPORT
    openConns,     \* target connections opened and not yet closed
    deferred,      \* deferred Close calls of the handler that is running
    timeoutAt,     \* instant at which the channel timeout of waitForMinions fires
    logAt,         \* instant at which the channel logProgress fires
    waitStart,     \* Clock.Now() read on entry of waitForMinions
    reports,       \* local variable reports of waitForMinions
    reportEvents,  \* minion report watcher changes consumed
    fetches,       \* Facade.GetMinionReports calls made
    waitErr,       \* value returned by waitForMinions ("none" before it returns)
    timeoutLog,    \* message waitForMinions logged at its deadline, in pieces
    waitPolicy     \* argument waitPolicy of waitForMinions

vars == <<config, newErr, pc, dying, clock, status, status0, phase, herr,
          exit, ctrl, ticks, unlocks, locked, lastResp, lockdownErr,
          handlersRun, setPhaseCalls, setPhaseOK, calls, serialized,
          openConns, deferred, timeoutAt, logAt, waitStart, reports,
          reportEvents, fetches, waitErr, timeoutLog, waitPolicy>>

newVars == <<config, newErr>>
envVars == <<dying, clock, newVars>>
guardVars == <<ticks, unlocks, locked, lastResp, lockdownErr>>
connVars == <<openConns, deferred>>
histVars == <<status0, handlersRun, setPhaseCalls, setPhaseOK>>
waitVars == <<timeoutAt, logAt, waitStart, reports, reportEvents, fetches,
              waitErr, timeoutLog, waitPolicy>>

-----------------------------------------------------------------------------
(* Bounds of the model.                                                    *)

MaxClock == 3
MaxTicks == 2
MaxReportEvents == 2

(* Program constants, in units of 30 seconds.                              *)

maxMinionWait == 30
minionWaitLogInterval == 1

failFast == FALSE
waitForAll == TRUE

-----------------------------------------------------------------------------
(* Phases and errors.                                                      *)

ActivePhases ==
    {"QUIESCE", "READONLY", "PRECHECK", "IMPORT", "VALIDATION", "SUCCESS",
     "LOGTRANSFER", "REAP", "ABORT"}

TerminalPhases == {"ABORTDONE", "DONE", "REAPFAILED"}

Phases == ActivePhases \cup TerminalPhases \cup {"UNKNOWN"}

IsTerminal(p) == p \in TerminalPhases

\* A modelHasMigrated that forgets REAPFAILED.
modelHasMigrated_onlyDONE(p) == p = "DONE"

\* A modelHasMigrated that forgets DONE.
modelHasMigrated_noDONE(p) == p = "REAPFAILED"

modelHasMigrated(p) == p = "DONE" \/ p = "REAPFAILED"

nil == "nil"
ErrDoneForNow == "ErrDoneForNow"
ErrUninstall == "ErrUninstall"
ErrDying == "ErrDying"
errMinionReportTimeout == "errMinionReportTimeout"
errMinionReportFailed == "errMinionReportFailed"

-----------------------------------------------------------------------------
(* Data drawn by the environment.                                          *)

ModelUUIDs == {"m1"}
Attempts == {1}
PhaseChangedTimes == {-31, -28, 0}
TargetInfo == [Addrs |-> "10.0.0.1:17070", CACert |-> "cert",
               AuthTag |-> "user-admin", Password |-> "secret"]

Statuses ==
    [ModelUUID : ModelUUIDs, Attempt : Attempts, Phase : Phases,
     PhaseChangedTime : PhaseChangedTimes, TargetInfo : {TargetInfo}]

empty ==
    [ModelUUID |-> "", Attempt |-> 0, Phase |-> "UNKNOWN",
     PhaseChangedTime |-> 0, TargetInfo |-> TargetInfo]

NoMigration == [exists |-> FALSE, Phase |-> "UNKNOWN", PhaseChangedTime |-> 0]

SerializedModel == [Bytes |-> "bytes", Charms |-> "charms", Tools |-> "tools"]
NoModel == [Bytes |-> "", Charms |-> "", Tools |-> ""]

MigrationIds == {"m1:1", "m1:2"}

zeroReports ==
    [MigrationId |-> "", Phase |-> "UNKNOWN", SuccessCount |-> 0,
     UnknownCount |-> 0, FailedMachines |-> {}, FailedUnits |-> {},
     SomeUnknownMachines |-> <<>>, SomeUnknownUnits |-> <<>>]

\* The aggregates GetMinionReports returns: the agents still unknown are
\* sampled by name, machines and units apart.
MinionReports ==
    { r \in [MigrationId : MigrationIds, Phase : {"SUCCESS", "VALIDATION"},
             SuccessCount : {1}, UnknownCount : {0, 1},
             FailedMachines : SUBSET {"3"}, FailedUnits : SUBSET {"app/0"},
             SomeUnknownMachines : {<<>>, <<"1">>},
             SomeUnknownUnits : {<<>>, <<"app/1">>}] :
        /\ r.FailedMachines = {} \/ r.FailedUnits = {}
        /\ Len(r.SomeUnknownMachines) + Len(r.SomeUnknownUnits)
             = r.UnknownCount }

\* The fields of Config, in the order Validate tests them.
ConfigFields ==
    <<"Facade", "Guard", "APIOpen", "UploadBinaries", "CharmDownloader",
      "ToolsDownloader", "Clock">>

\* A Config, as far as New looks at it: TRUE for a field that is not nil.
Configs == [{ConfigFields[i] : i \in 1..Len(ConfigFields)} -> BOOLEAN]

ValidConfig == [f \in {ConfigFields[i] : i \in 1..Len(ConfigFields)} |-> TRUE]

\* A Validate that does not test Clock.
Validate_noClock(c) ==
    IF ~c.Facade THEN "nil Facade not valid"
    ELSE IF ~c.Guard THEN "nil Guard not valid"
    ELSE IF ~c.APIOpen THEN "nil APIOpen not valid"
    ELSE IF ~c.UploadBinaries THEN "nil UploadBinaries not valid"
    ELSE IF ~c.CharmDownloader THEN "nil CharmDownloader not valid"
    ELSE IF ~c.ToolsDownloader THEN "nil ToolsDownloader not valid"
    ELSE nil

\* Config.Validate: errors.NotValidf("nil <field>") for the first nil field.
Validate(c) ==
    IF ~c.Facade THEN "nil Facade not valid"
    ELSE IF ~c.Guard THEN "nil Guard not valid"
    ELSE IF ~c.APIOpen THEN "nil APIOpen not valid"
    ELSE IF ~c.UploadBinaries THEN "nil UploadBinaries not valid"
    ELSE IF ~c.CharmDownloader THEN "nil CharmDownloader not valid"
    ELSE IF ~c.ToolsDownloader THEN "nil ToolsDownloader not valid"
    ELSE IF ~c.Clock THEN "nil Clock not valid"
    ELSE nil

-----------------------------------------------------------------------------
\* New has returned a Worker for a valid Config: run() is about to start.
Init ==
    /\ config = ValidConfig
    /\ newErr = nil
    /\ pc = "Watch"
    /\ dying = FALSE
    /\ clock = 0
    /\ status = empty
    /\ status0 = empty
    /\ phase = "UNKNOWN"
    /\ herr = nil
    /\ exit = "running"
    /\ ctrl = NoMigration
    /\ ticks = 0
    /\ unlocks = 0
    /\ locked = FALSE
    /\ lastResp = "none"
    /\ lockdownErr = "none"
    /\ handlersRun = <<>>
    /\ setPhaseCalls = <<>>
    /\ setPhaseOK = 0
    /\ calls = <<>>
    /\ serialized = NoModel
    /\ openConns = 0
    /\ deferred = 0
    /\ timeoutAt = 0
    /\ logAt = 0
    /\ waitStart = 0
    /\ reports = zeroReports
    /\ reportEvents = 0
    /\ fetches = 0
    /\ waitErr = "none"
    /\ timeoutLog = <<>>
    /\ waitPolicy = waitForAll

-----------------------------------------------------------------------------
(* New.                                                                    *)

\* New(config): Validate, then catacomb.Invoke starts run().
New ==
    /\ pc = "New"
    /\ IF Validate(config) # nil
         THEN newErr' = Validate(config) /\ pc' = "NotStarted"
         ELSE \E invoked \in BOOLEAN :
                IF invoked
                  THEN newErr' = nil /\ pc' = "Watch"
                  ELSE newErr' = "catacomb.Invoke" /\ pc' = "NotStarted"
    /\ UNCHANGED <<config, dying, clock, status, phase, herr, exit, ctrl,
                   guardVars, histVars, calls, serialized, connVars,
                   waitVars>>

-----------------------------------------------------------------------------
(* The supervisor and the clock.                                           *)

\* Worker.Kill, on the Worker New returned: closes catacomb.Dying().
Kill ==
    /\ newErr = nil
    /\ exit = "running"
    /\ ~dying
    /\ dying' = TRUE
    /\ UNCHANGED <<newVars, pc, clock, status, phase, herr, exit, ctrl,
                   guardVars, histVars, calls, serialized, connVars, waitVars>>

\* Time passes, whatever the worker is doing.  The clock is read by
\* waitForMinions (Now and After) and by the controller when it records a
\* phase.
Advance ==
    /\ clock < MaxClock
    /\ clock' = clock + 1
    /\ UNCHANGED <<newVars, pc, dying, status, phase, herr, exit, ctrl,
                   guardVars, histVars, calls, serialized, connVars, waitVars>>

\* run() returns e.
Return(e) ==
    /\ exit' = e
    /\ pc' = "Done"

-----------------------------------------------------------------------------
(* waitForActiveMigration and the lockdown.                                *)

\* Facade.Watch() and catacomb.Add(watcher).
Watch ==
    /\ pc = "Watch"
    /\ \E r \in {"ok", "watchErr", "addErr"} :
         CASE r = "ok" -> pc' = "guard" /\ exit' = exit
           [] r = "watchErr" -> Return("watching for migration")
           [] r = "addErr" -> Return("catacomb.Add")
    /\ UNCHANGED <<envVars, status, phase, herr, ctrl, guardVars, histVars,
                   calls, serialized, connVars, waitVars>>

\* select: case <-w.catacomb.Dying().
GuardDying ==
    /\ pc = "guard"
    /\ dying
    /\ Return(ErrDying)
    /\ UNCHANGED <<envVars, status, phase, herr, ctrl, guardVars, histVars,
                   calls, serialized, connVars, waitVars>>

\* select: case <-watcher.Changes().  GetMigrationStatus is called next.
GuardChange ==
    /\ pc = "guard"
    /\ ticks < MaxTicks
    /\ ticks' = ticks + 1
    /\ pc' = "GetMigrationStatus"
    /\ UNCHANGED <<envVars, status, phase, herr, exit, ctrl, unlocks, locked,
                   lastResp, lockdownErr, histVars, calls, serialized,
                   connVars, waitVars>>

\* A guard that goes back to waiting on NotFound without Guard.Unlock().
GuardNotFound_noUnlock ==
    /\ pc = "GetMigrationStatus"
    /\ ctrl' = NoMigration
    /\ lastResp' = "NotFound"
    /\ pc' = "guard"
    /\ UNCHANGED <<envVars, status, phase, herr, exit, ticks, unlocks, locked,
                   lockdownErr, histVars, calls, serialized, connVars,
                   waitVars>>

\* Facade.GetMigrationStatus() reports NotFound.  Guard.Unlock is called
\* next.
GuardNotFound ==
    /\ pc = "GetMigrationStatus"
    /\ ctrl' = NoMigration
    /\ lastResp' = "NotFound"
    /\ pc' = "Unlock"
    /\ UNCHANGED <<envVars, status, phase, herr, exit, ticks, unlocks, locked,
                   lockdownErr, histVars, calls, serialized, connVars,
                   waitVars>>

\* Guard.Unlock() returns: an error ends the run, nil goes back to the
\* select.
GuardUnlock ==
    /\ pc = "Unlock"
    /\ unlocks' = unlocks + 1
    /\ \E unlockErr \in BOOLEAN :
         IF unlockErr THEN Return("unlock") ELSE pc' = "guard" /\ exit' = exit
    /\ UNCHANGED <<envVars, status, phase, herr, ctrl, ticks, locked,
                   lastResp, lockdownErr, histVars, calls, serialized,
                   connVars, waitVars>>

\* Facade.GetMigrationStatus() fails otherwise.
GuardStatusError ==
    /\ pc = "GetMigrationStatus"
    /\ lastResp' = "error"
    /\ Return("retrieving migration status")
    /\ UNCHANGED <<envVars, status, phase, herr, ctrl, ticks, unlocks, locked,
                   lockdownErr, histVars, calls, serialized, connVars,
                   waitVars>>

\* A guard that returns every status of a model that has not migrated,
\* terminal or not.
GuardStatus_returnsTerminal ==
    /\ pc = "GetMigrationStatus"
    /\ \E s \in Statuses :
         /\ ctrl' = [exists |-> TRUE, Phase |-> s.Phase,
                     PhaseChangedTime |-> s.PhaseChangedTime]
         /\ lastResp' = s.Phase
         /\ IF modelHasMigrated(s.Phase)
              THEN /\ Return(ErrUninstall)
                   /\ UNCHANGED <<status, status0, ticks, unlocks>>
              ELSE /\ pc' = "Lockdown"
                   /\ exit' = exit
                   /\ status' = s
                   /\ status0' = s
                   /\ ticks' = 0
                   /\ unlocks' = 0
    /\ UNCHANGED <<envVars, phase, herr, locked, lockdownErr,
                   handlersRun, setPhaseCalls, setPhaseOK, calls, serialized,
                   connVars, waitVars>>

\* A guard that unlocks the fortress when it skips a terminal status.
GuardStatus_unlocksOnTerminal ==
    /\ pc = "GetMigrationStatus"
    /\ \E s \in Statuses :
         /\ ctrl' = [exists |-> TRUE, Phase |-> s.Phase,
                     PhaseChangedTime |-> s.PhaseChangedTime]
         /\ lastResp' = s.Phase
         /\ IF modelHasMigrated(s.Phase)
              THEN /\ Return(ErrUninstall)
                   /\ UNCHANGED <<status, status0, ticks, unlocks>>
              ELSE IF ~IsTerminal(s.Phase)
                     THEN /\ pc' = "Lockdown"
                          /\ exit' = exit
                          /\ status' = s
                          /\ status0' = s
                          /\ ticks' = 0
                          /\ unlocks' = 0
                     ELSE /\ pc' = "guard"
                          /\ exit' = exit
                          /\ unlocks' = unlocks + 1
                          /\ UNCHANGED <<status, status0, ticks>>
    /\ UNCHANGED <<envVars, phase, herr, locked, lockdownErr,
                   handlersRun, setPhaseCalls, setPhaseOK, calls, serialized,
                   connVars, waitVars>>

\* Facade.GetMigrationStatus() returns a status: the run ends when the model
\* has migrated, the guard returns an active status, and goes back to the
\* select on any other terminal status.
\* When the guard returns the status its watcher is read no more and it
\* calls Unlock no more: the counts it kept while waiting are dropped.
GuardStatus ==
    /\ pc = "GetMigrationStatus"
    /\ \E s \in Statuses :
         /\ ctrl' = [exists |-> TRUE, Phase |-> s.Phase,
                     PhaseChangedTime |-> s.PhaseChangedTime]
         /\ lastResp' = s.Phase
         /\ IF modelHasMigrated(s.Phase)
              THEN /\ Return(ErrUninstall)
                   /\ UNCHANGED <<status, status0, ticks, unlocks>>
              ELSE IF ~IsTerminal(s.Phase)
                     THEN /\ pc' = "Lockdown"
                          /\ exit' = exit
                          /\ status' = s
                          /\ status0' = s
                          /\ ticks' = 0
                          /\ unlocks' = 0
                     ELSE /\ pc' = "guard"
                          /\ exit' = exit
                          /\ UNCHANGED <<status, status0, ticks, unlocks>>
    /\ UNCHANGED <<envVars, phase, herr, locked, lockdownErr,
                   handlersRun, setPhaseCalls, setPhaseOK, calls, serialized,
                   connVars, waitVars>>

\* A run() that enters the loop whatever Guard.Lockdown returned.
Lockdown_entersAnyway ==
    /\ pc = "Lockdown"
    /\ \E r \in {nil, "lockdown"} \cup (IF dying THEN {"ErrAborted"} ELSE {}) :
         /\ lockdownErr' = r
         /\ locked' = (r = nil)
         /\ phase' = status.Phase
         /\ pc' = "loop"
         /\ exit' = exit
    /\ UNCHANGED <<envVars, status, herr, ctrl, ticks, unlocks, lastResp,
                   histVars, calls, serialized, connVars, waitVars>>

\* Guard.Lockdown(w.catacomb.Dying()) and phase := status.Phase.
Lockdown ==
    /\ pc = "Lockdown"
    /\ \E r \in {nil, "lockdown"} \cup (IF dying THEN {"ErrAborted"} ELSE {}) :
         /\ lockdownErr' = r
         /\ CASE r = nil ->
                  /\ locked' = TRUE
                  /\ phase' = status.Phase
                  /\ pc' = "loop"
                  /\ exit' = exit
              [] r = "ErrAborted" ->
                  Return(ErrDying) /\ UNCHANGED <<locked, phase>>
              [] r = "lockdown" ->
                  Return(r) /\ UNCHANGED <<locked, phase>>
    /\ UNCHANGED <<envVars, status, herr, ctrl, ticks, unlocks, lastResp,
                   histVars, calls, serialized, connVars, waitVars>>

-----------------------------------------------------------------------------
(* The phase handlers.  A handler result is <<next phase, error>>.         *)

Result(p, e) == [phase |-> p, err |-> e]

\* A doQUIESCE that hands over to the wrong handler.
doQUIESCE_skipREADONLY == Result("PRECHECK", nil)

doQUIESCE == Result("READONLY", nil)
doREADONLY == Result("PRECHECK", nil)
doPRECHECK == Result("IMPORT", nil)
\* A doLOGTRANSFER that skips the reaping of the source model.
doLOGTRANSFER_skipREAP == Result("DONE", nil)

doLOGTRANSFER == Result("REAP", nil)

\* A doSUCCESS that tolerates no minion failure or timeout.
doSUCCESS_strict(err) ==
    IF err = nil THEN Result("LOGTRANSFER", nil) ELSE Result("SUCCESS", err)

\* A doSUCCESS that aborts the migration on a minion failure or timeout.
doSUCCESS_abort(err) ==
    IF err = nil
      THEN Result("LOGTRANSFER", nil)
      ELSE IF err \in {errMinionReportFailed, errMinionReportTimeout}
             THEN Result("ABORT", nil)
             ELSE Result("SUCCESS", err)

\* doSUCCESS, given the value err returned by waitForMinions.
doSUCCESS(err) ==
    IF err \in {nil, errMinionReportFailed, errMinionReportTimeout}
      THEN Result("LOGTRANSFER", nil)
      ELSE Result("SUCCESS", err)

\* doREAP, given the value err returned by Facade.Reap().
doREAP(err) ==
    IF err # nil THEN Result("REAPFAILED", err) ELSE Result("DONE", nil)

\* A doVALIDATION that goes on to SUCCESS whatever activateModel returned.
doVALIDATION_optimistic(err) == Result("SUCCESS", nil)

\* doVALIDATION, given the value err returned by activateModel.
doVALIDATION(err) ==
    IF err # nil THEN Result("ABORT", nil) ELSE Result("SUCCESS", nil)

\* A doABORT that returns the error of a failed dial of the target.
doABORT_dialFatal(err) ==
    Result("ABORTDONE", IF err = "dial" THEN err ELSE nil)

\* A doABORT that treats a failed removal of the imported model as fatal.
doABORT_fatal(err) == Result("ABORTDONE", err)

\* doABORT, given the value err returned by removeImportedModel.
doABORT(err) == Result("ABORTDONE", nil)

\* One call of a handler on the facade, the dialer or the target.
Call(op, ok, tag) ==
    [op |-> op, ok |-> ok, phase |-> phase, modelTag |-> tag]

\* api.DialOpts{}: the zero value, no timeout and no retries.
ZeroDialOpts == [Timeout |-> 0, RetryDelay |-> 0]

\* apiInfo := &api.Info{...} of openAPIConnForModel.
apiInfo(targetInfo, modelUUID) ==
    [Addrs |-> targetInfo.Addrs, CACert |-> targetInfo.CACert,
     Tag |-> targetInfo.AuthTag, Password |-> targetInfo.Password,
     ModelTag |-> modelUUID]

\* The call config.APIOpen(apiInfo, api.DialOpts{}) and whether it succeeds.
DialCall(ok, modelUUID) ==
    [op |-> "APIOpen", ok |-> ok, phase |-> phase,
     modelTag |-> apiInfo(status.TargetInfo, modelUUID).ModelTag,
     info |-> apiInfo(status.TargetInfo, modelUUID), opts |-> ZeroDialOpts]

\* openAPIConnForModel: config.APIOpen(apiInfo, api.DialOpts{}).
openAPIConnForModel(ok, modelUUID) ==
    /\ calls' = Append(calls, DialCall(ok, modelUUID))
    /\ openConns' = IF ok THEN openConns + 1 ELSE openConns

\* An openAPIConn that dials with the tag of the migrating model.
openAPIConn_modelScoped(ok) == openAPIConnForModel(ok, status.ModelUUID)

\* openAPIConn: the connection has an empty model tag.
openAPIConn(ok) == openAPIConnForModel(ok, "")

\* A handler return that does not run the deferred calls.
HandlerReturn_noClose(r) ==
    /\ phase' = r.phase
    /\ herr' = r.err
    /\ openConns' = openConns
    /\ deferred' = 0
    /\ pc' = "returned"

\* The handler returns r: the deferred conn.Close() calls run.
HandlerReturn(r) ==
    /\ phase' = r.phase
    /\ herr' = r.err
    /\ openConns' = openConns - deferred
    /\ deferred' = 0
    /\ pc' = "returned"

\* A switch whose default case runs doQUIESCE.
Dispatch_defaultQuiesce ==
    /\ pc = "loop"
    /\ handlersRun' = Append(handlersRun, phase)
    /\ pc' = IF phase \in ActivePhases THEN phase ELSE "QUIESCE"
    /\ exit' = exit
    /\ UNCHANGED <<envVars, status, status0, phase, herr, ctrl, guardVars,
                   setPhaseCalls, setPhaseOK, calls, serialized, connVars,
                   waitVars>>

\* The switch of run(): the handler of phase is entered.
Dispatch ==
    /\ pc = "loop"
    /\ IF phase \in ActivePhases
         THEN /\ handlersRun' = Append(handlersRun, phase)
              /\ pc' = phase
              /\ exit' = exit
         ELSE /\ Return("unknown phase")
              /\ handlersRun' = handlersRun
    /\ UNCHANGED <<envVars, status, status0, phase, herr, ctrl, guardVars,
                   setPhaseCalls, setPhaseOK, calls, serialized, connVars,
                   waitVars>>

\* doQUIESCE, doREADONLY, doPRECHECK, doLOGTRANSFER.
PassThrough ==
    /\ pc \in {"QUIESCE", "READONLY", "PRECHECK", "LOGTRANSFER"}
    /\ HandlerReturn(CASE pc = "QUIESCE" -> doQUIESCE
                       [] pc = "READONLY" -> doREADONLY
                       [] pc = "PRECHECK" -> doPRECHECK
                       [] pc = "LOGTRANSFER" -> doLOGTRANSFER)
    /\ UNCHANGED <<envVars, status, exit, ctrl, guardVars, histVars, calls,
                   serialized, waitVars>>

\* doIMPORT: Facade.Export().
ImportExport ==
    /\ pc = "IMPORT"
    /\ \E ok \in BOOLEAN :
         /\ calls' = Append(calls, Call("Export", ok, ""))
         /\ IF ok
              THEN /\ serialized' = SerializedModel
                   /\ pc' = "IMPORT_dial"
                   /\ UNCHANGED <<phase, herr, connVars>>
              ELSE /\ HandlerReturn(Result("ABORT", nil))
                   /\ serialized' = serialized
    /\ UNCHANGED <<envVars, status, exit, ctrl, guardVars, histVars, waitVars>>

\* doIMPORT: openAPIConn(targetInfo).
ImportDial ==
    /\ pc = "IMPORT_dial"
    /\ \E ok \in BOOLEAN :
         IF ok
           THEN /\ openAPIConn(TRUE)
                /\ deferred' = deferred + 1
                /\ pc' = "IMPORT_import"
                /\ UNCHANGED <<phase, herr>>
           ELSE /\ calls' = Append(calls, DialCall(FALSE, ""))
                /\ HandlerReturn(Result("ABORT", nil))
    /\ UNCHANGED <<envVars, status, exit, ctrl, guardVars, histVars,
                   serialized, waitVars>>

\* A doIMPORT that goes on to the model-scoped dial when Import fails.
ImportImport_ignoresError ==
    /\ pc = "IMPORT_import"
    /\ \E ok \in BOOLEAN :
         /\ calls' = Append(calls, Call("Import", ok, ""))
         /\ pc' = "IMPORT_dialModel"
         /\ UNCHANGED <<phase, herr, connVars>>
    /\ UNCHANGED <<envVars, status, exit, ctrl, guardVars, histVars,
                   serialized, waitVars>>

\* doIMPORT: targetClient.Import(serialized.Bytes).
ImportImport ==
    /\ pc = "IMPORT_import"
    /\ \E ok \in BOOLEAN :
         /\ calls' = Append(calls, Call("Import", ok, ""))
         /\ IF ok
              THEN /\ pc' = "IMPORT_dialModel"
                   /\ UNCHANGED <<phase, herr, connVars>>
              ELSE HandlerReturn(Result("ABORT", nil))
    /\ UNCHANGED <<envVars, status, exit, ctrl, guardVars, histVars,
                   serialized, waitVars>>

\* doIMPORT: openAPIConnForModel(targetInfo, modelUUID).
ImportDialModel ==
    /\ pc = "IMPORT_dialModel"
    /\ \E ok \in BOOLEAN :
         IF ok
           THEN /\ openAPIConnForModel(TRUE, status.ModelUUID)
                /\ deferred' = deferred + 1
                /\ pc' = "IMPORT_upload"
                /\ UNCHANGED <<phase, herr>>
           ELSE /\ calls' = Append(calls, DialCall(FALSE, status.ModelUUID))
                /\ HandlerReturn(Result("ABORT", nil))
    /\ UNCHANGED <<envVars, status, exit, ctrl, guardVars, histVars,
                   serialized, waitVars>>

\* A doIMPORT that goes on to VALIDATION whatever UploadBinaries returned.
ImportUpload_ignoresError ==
    /\ pc = "IMPORT_upload"
    /\ \E ok \in BOOLEAN :
         /\ calls' = Append(calls, Call("UploadBinaries", ok, ""))
         /\ HandlerReturn(Result("VALIDATION", nil))
    /\ UNCHANGED <<envVars, status, exit, ctrl, guardVars, histVars,
                   serialized, waitVars>>

\* doIMPORT: config.UploadBinaries(...).
ImportUpload ==
    /\ pc = "IMPORT_upload"
    /\ \E ok \in BOOLEAN :
         /\ calls' = Append(calls, Call("UploadBinaries", ok, ""))
         /\ HandlerReturn(IF ok THEN Result("VALIDATION", nil)
                                ELSE Result("ABORT", nil))
    /\ UNCHANGED <<envVars, status, exit, ctrl, guardVars, histVars,
                   serialized, waitVars>>

\* doVALIDATION, activateModel: openAPIConn(targetInfo).
ValidationDial ==
    /\ pc = "VALIDATION"
    /\ \E ok \in BOOLEAN :
         IF ok
           THEN /\ openAPIConn(TRUE)
                /\ deferred' = deferred + 1
                /\ pc' = "VALIDATION_activate"
                /\ UNCHANGED <<phase, herr>>
           ELSE /\ calls' = Append(calls, DialCall(FALSE, ""))
                /\ HandlerReturn(doVALIDATION("dial"))
    /\ UNCHANGED <<envVars, status, exit, ctrl, guardVars, histVars,
                   serialized, waitVars>>

\* An activateModel that removes the model from the target itself when
\* Activate fails.
ValidationActivate_removesModel ==
    /\ pc = "VALIDATION_activate"
    /\ \E ok \in BOOLEAN :
         /\ calls' = IF ok
                       THEN Append(calls, Call("Activate", TRUE, ""))
                       ELSE calls \o <<Call("Activate", FALSE, ""),
                                       Call("Abort", TRUE, "")>>
         /\ HandlerReturn(doVALIDATION(IF ok THEN nil ELSE "activate"))
    /\ UNCHANGED <<envVars, status, exit, ctrl, guardVars, histVars,
                   serialized, waitVars>>

\* doVALIDATION, activateModel: targetClient.Activate(modelUUID).
ValidationActivate ==
    /\ pc = "VALIDATION_activate"
    /\ \E ok \in BOOLEAN :
         /\ calls' = Append(calls, Call("Activate", ok, ""))
         /\ HandlerReturn(doVALIDATION(IF ok THEN nil ELSE "activate"))
    /\ UNCHANGED <<envVars, status, exit, ctrl, guardVars, histVars,
                   serialized, waitVars>>

\* doABORT, removeImportedModel: openAPIConn(targetInfo).
AbortDial ==
    /\ pc = "ABORT"
    /\ \E ok \in BOOLEAN :
         IF ok
           THEN /\ openAPIConn(TRUE)
                /\ deferred' = deferred + 1
                /\ pc' = "ABORT_abort"
                /\ UNCHANGED <<phase, herr>>
           ELSE /\ calls' = Append(calls, DialCall(FALSE, ""))
                /\ HandlerReturn(doABORT("dial"))
    /\ UNCHANGED <<envVars, status, exit, ctrl, guardVars, histVars,
                   serialized, waitVars>>

\* doABORT, removeImportedModel: targetClient.Abort(modelUUID).
AbortAbort ==
    /\ pc = "ABORT_abort"
    /\ \E ok \in BOOLEAN :
         /\ calls' = Append(calls, Call("Abort", ok, ""))
         /\ HandlerReturn(doABORT(IF ok THEN nil ELSE "abort"))
    /\ UNCHANGED <<envVars, status, exit, ctrl, guardVars, histVars,
                   serialized, waitVars>>

\* doREAP: Facade.Reap().
Reap ==
    /\ pc = "REAP"
    /\ \E ok \in BOOLEAN :
         /\ calls' = Append(calls, Call("Reap", ok, ""))
         /\ HandlerReturn(doREAP(IF ok THEN nil ELSE "reap"))
    /\ UNCHANGED <<envVars, status, exit, ctrl, guardVars, histVars,
                   serialized, waitVars>>

-----------------------------------------------------------------------------
(* waitForMinions.                                                         *)

\* A maxWait counted from the moment the wait starts.
maxWait_local(now, st) == maxMinionWait

\* maxWait := maxMinionWait - clk.Now().Sub(status.PhaseChangedTime)
maxWait(now, st) == maxMinionWait - (now - st.PhaseChangedTime)

\* fmt.Sprintf("%s:%d", status.ModelUUID, status.Attempt)
migId(st) == st.ModelUUID \o ":" \o ToString(st.Attempt)

\* A validateMinionReports that does not compare the phases.
validateMinionReports_idOnly(r, st) ==
    IF r.MigrationId # migId(st)
      THEN "unexpected migration id in minion reports"
      ELSE nil

validateMinionReports(r, st) ==
    IF r.MigrationId # migId(st)
      THEN "unexpected migration id in minion reports"
      ELSE IF r.Phase # st.Phase
             THEN "minion reports phase does not match migration phase"
             ELSE nil

failures(r) == Cardinality(r.FailedMachines) + Cardinality(r.FailedUnits)

\* A wait that never fails fast: it resolves only once no agent is unknown.
reportsChanged_neverFailFast(r, st, policy) ==
    IF validateMinionReports(r, st) # nil
      THEN validateMinionReports(r, st)
      ELSE IF r.UnknownCount = 0
             THEN IF failures(r) > 0 THEN errMinionReportFailed ELSE nil
             ELSE "continue"

\* A wait that always fails fast, whatever the policy.
reportsChanged_alwaysFailFast(r, st, policy) ==
    IF validateMinionReports(r, st) # nil
      THEN validateMinionReports(r, st)
      ELSE IF failures(r) > 0
             THEN errMinionReportFailed
             ELSE IF r.UnknownCount = 0 THEN nil ELSE "continue"

\* A wait whose policies are exchanged: it stops at the first failure under
\* waitForAll.
reportsChanged_policyInverted(r, st, policy) ==
    IF validateMinionReports(r, st) # nil
      THEN validateMinionReports(r, st)
      ELSE IF failures(r) > 0 /\ policy = waitForAll
             THEN errMinionReportFailed
             ELSE IF r.UnknownCount = 0
                    THEN IF failures(r) > 0 THEN errMinionReportFailed ELSE nil
                    ELSE "continue"

\* The case <-watch.Changes() of the select once the reports r were fetched:
\* the value waitForMinions returns, or "continue" when it loops.
reportsChanged(r, st, policy) ==
    IF validateMinionReports(r, st) # nil
      THEN validateMinionReports(r, st)
      ELSE IF failures(r) > 0 /\ policy = failFast
             THEN errMinionReportFailed
             ELSE IF r.UnknownCount = 0
                    THEN IF failures(r) > 0 THEN errMinionReportFailed ELSE nil
                    ELSE "continue"

\* reports.IsZero(): no reports have arrived yet.
IsZero(r) == r.MigrationId = "" /\ r.Phase = "UNKNOWN"

\* strings.Join(list, ", ")
RECURSIVE Join(_)
Join(list) ==
    IF list = <<>> THEN ""
    ELSE IF Len(list) = 1 THEN list[1]
    ELSE list[1] \o ", " \o Join(Tail(list))

\* formatMinionTimeout: the message as the sequence of its pieces, the text
\* of a format and the values put in place of its verbs.  In the second
\* branch msg is never passed through Sprintf: its two verbs %s stay in the
\* message as they are written.
formatMinionTimeout(r, st) ==
    IF IsZero(r)
      THEN <<"no agents reported in time for migration phase ", st.Phase>>
      ELSE <<"%s", " agents failed to report in time for migration phase ",
             "%s", " including:">>
           \o (IF Len(r.SomeUnknownMachines) > 0
                 THEN <<"machines: ", Join(r.SomeUnknownMachines), ";">>
                 ELSE <<>>)
           \o (IF Len(r.SomeUnknownUnits) > 0
                 THEN <<" units: ", Join(r.SomeUnknownUnits)>>
                 ELSE <<>>)

\* waitForMinions returns e to doSUCCESS after logging msg at its deadline;
\* doSUCCESS returns to run(): the timers of waitForMinions are gone.
WaitReturnLogging(e, msg) ==
    /\ waitErr' = e
    /\ timeoutLog' = msg
    /\ timeoutAt' = 0
    /\ logAt' = 0
    /\ waitStart' = 0
    /\ HandlerReturn(doSUCCESS(e))

\* waitForMinions returns e without passing by its deadline.
WaitReturn(e) == WaitReturnLogging(e, timeoutLog)

\* doSUCCESS enters waitForMinions(status, waitForAll): the timeout is armed.
MinionsEnter ==
    /\ timeoutLog' = <<>>
    /\ pc = "SUCCESS"
    /\ waitPolicy' = waitForAll
    /\ waitStart' = clock
    /\ timeoutAt' = clock + maxWait(clock, status)
    /\ reports' = zeroReports
    /\ waitErr' = "none"
    /\ pc' = "WatchMinionReports"
    /\ UNCHANGED <<envVars, status, phase, herr, exit, ctrl, guardVars,
                   histVars, calls, serialized, connVars, logAt,
                   reportEvents, fetches>>

\* waitForMinions(status, waitPolicy) entered with the policy of its caller.
WaitForMinions ==
    /\ timeoutLog' = <<>>
    /\ pc = "waitForMinions"
    /\ waitStart' = clock
    /\ timeoutAt' = clock + maxWait(clock, status)
    /\ reports' = zeroReports
    /\ waitErr' = "none"
    /\ pc' = "WatchMinionReports"
    /\ UNCHANGED <<envVars, status, phase, herr, exit, ctrl, guardVars,
                   histVars, calls, serialized, connVars, logAt,
                   reportEvents, fetches, waitPolicy>>

\* Facade.WatchMinionReports(), catacomb.Add(watch), logProgress is armed.
WatchMinionReports ==
    /\ pc = "WatchMinionReports"
    /\ \E r \in {"ok", "watchErr", "addErr"} :
         CASE r = "ok" ->
                /\ logAt' = clock + minionWaitLogInterval
                /\ pc' = "select"
                /\ UNCHANGED <<phase, herr, connVars, waitErr, timeoutLog>>
                /\ UNCHANGED <<timeoutAt, waitStart>>
           [] r = "watchErr" -> WaitReturn("watching minion reports")
           [] r = "addErr" -> WaitReturn("catacomb.Add")
    /\ UNCHANGED <<envVars, status, exit, ctrl, guardVars, histVars, calls,
                   serialized, reports, reportEvents, fetches, waitPolicy>>

\* select: case <-w.catacomb.Dying().
MinionsDying ==
    /\ pc = "select"
    /\ dying
    /\ WaitReturn(ErrDying)
    /\ UNCHANGED <<envVars, status, exit, ctrl, guardVars, histVars, calls,
                   serialized, reports, reportEvents, fetches, waitPolicy>>

\* The channel timeout has a value to deliver.
timeoutFired == clock >= timeoutAt

\* A timeout case that logs the diagnostic and goes on waiting.
MinionsTimeout_keepsWaiting ==
    /\ pc = "select"
    /\ timeoutFired
    /\ timeoutLog' = formatMinionTimeout(reports, status)
    /\ UNCHANGED <<pc, envVars, status, phase, herr, exit, ctrl, guardVars,
                   histVars, calls, serialized, connVars, timeoutAt, logAt,
                   waitStart, reports, reportEvents, fetches, waitErr,
                   waitPolicy>>

\* select: case <-timeout.
MinionsTimeout ==
    /\ pc = "select"
    /\ timeoutFired
    /\ WaitReturnLogging(errMinionReportTimeout,
                         formatMinionTimeout(reports, status))
    /\ UNCHANGED <<envVars, status, exit, ctrl, guardVars, histVars, calls,
                   serialized, reports, reportEvents, fetches, waitPolicy>>

\* select: case <-watch.Changes().  GetMinionReports is called next.
MinionsChange ==
    /\ pc = "select"
    /\ reportEvents < MaxReportEvents
    /\ reportEvents' = reportEvents + 1
    /\ pc' = "GetMinionReports"
    /\ UNCHANGED <<envVars, status, phase, herr, exit, ctrl, guardVars,
                   histVars, calls, serialized, connVars, timeoutAt, logAt,
                   waitStart, reports, fetches, waitErr, timeoutLog,
                   waitPolicy>>

\* Facade.GetMinionReports() fails.
MinionsFetchError ==
    /\ pc = "GetMinionReports"
    /\ fetches' = fetches + 1
    /\ reports' = zeroReports
    /\ WaitReturn("fetching minion reports")
    /\ UNCHANGED <<envVars, status, exit, ctrl, guardVars, histVars, calls,
                   serialized, reportEvents, waitPolicy>>

\* A reports-changed case that decides on the reports it held before the
\* fetch.
MinionsChanged_cached ==
    /\ pc = "GetMinionReports"
    /\ fetches' = fetches + 1
    /\ \E r \in MinionReports :
         /\ reports' = r
         /\ IF reportsChanged(reports, status, waitPolicy) = "continue"
              THEN /\ pc' = "select"
                   /\ UNCHANGED <<phase, herr, connVars, waitErr, timeoutLog,
                                  timeoutAt, logAt, waitStart>>
              ELSE WaitReturn(reportsChanged(reports, status, waitPolicy))
    /\ UNCHANGED <<envVars, status, exit, ctrl, guardVars, histVars, calls,
                   serialized, reportEvents, waitPolicy>>

\* Facade.GetMinionReports() returns r: the rest of the case
\* <-watch.Changes().
MinionsChanged ==
    /\ pc = "GetMinionReports"
    /\ fetches' = fetches + 1
    /\ \E r \in MinionReports :
         /\ reports' = r
         /\ IF reportsChanged(r, status, waitPolicy) = "continue"
              THEN /\ pc' = "select"
                   /\ UNCHANGED <<phase, herr, connVars, waitErr, timeoutLog,
                                  timeoutAt, logAt, waitStart>>
              ELSE WaitReturn(reportsChanged(r, status, waitPolicy))
    /\ UNCHANGED <<envVars, status, exit, ctrl, guardVars, histVars, calls,
                   serialized, reportEvents, waitPolicy>>

\* select: case <-logProgress.
MinionsLogProgress ==
    /\ pc = "select"
    /\ clock >= logAt
    /\ logAt' = clock + minionWaitLogInterval
    /\ UNCHANGED <<pc, envVars, status, phase, herr, exit, ctrl, guardVars,
                   histVars, calls, serialized, connVars, timeoutAt,
                   waitStart, reports, reportEvents, fetches, waitErr, timeoutLog,
                   waitPolicy>>

-----------------------------------------------------------------------------
(* The tail of the loop of run().                                          *)

\* A run() that does not test the error of the handler.
CheckReturned_ignoresError ==
    /\ pc = "returned"
    /\ IF dying
         THEN Return(ErrDying)
         ELSE pc' = "SetPhase" /\ exit' = exit
    /\ reports' = zeroReports
    /\ UNCHANGED <<envVars, status, phase, herr, ctrl, guardVars, histVars,
                   calls, serialized, connVars, timeoutAt, logAt, waitStart,
                   reportEvents, fetches, waitErr, timeoutLog, waitPolicy>>

\* A run() without the killed() test before SetPhase.
CheckReturned_noKilledCheck ==
    /\ pc = "returned"
    /\ IF herr # nil
         THEN Return(herr)
         ELSE pc' = "SetPhase" /\ exit' = exit
    /\ reports' = zeroReports
    /\ UNCHANGED <<envVars, status, phase, herr, ctrl, guardVars, histVars,
                   calls, serialized, connVars, timeoutAt, logAt, waitStart,
                   reportEvents, fetches, waitErr, timeoutLog, waitPolicy>>

\* if err != nil { return err }; if w.killed() { return ErrDying }
\* The locals of the handler that returned are gone.
CheckReturned ==
    /\ pc = "returned"
    /\ IF herr # nil
         THEN Return(herr)
         ELSE IF dying
                THEN Return(ErrDying)
                ELSE pc' = "SetPhase" /\ exit' = exit
    /\ reports' = zeroReports
    /\ UNCHANGED <<envVars, status, phase, herr, ctrl, guardVars, histVars,
                   calls, serialized, connVars, timeoutAt, logAt, waitStart,
                   reportEvents, fetches, waitErr, timeoutLog, waitPolicy>>

\* What run() does once SetPhase(p) returned nil: the value it returns, or
\* "running" when the loop goes on.
afterSetPhase(p) ==
    IF modelHasMigrated(p)
      THEN ErrUninstall
      ELSE IF IsTerminal(p) THEN ErrDoneForNow ELSE "running"

\* The source controller records the transition to p.
Recorded(p) == [exists |-> TRUE, Phase |-> p, PhaseChangedTime |-> clock]

\* A SetPhase step that drops the error of Facade.SetPhase.
SetPhase_ignoreError ==
    /\ pc = "SetPhase"
    /\ setPhaseCalls' = Append(setPhaseCalls, phase)
    /\ \E ok \in BOOLEAN :
         /\ setPhaseOK' = IF ok THEN setPhaseOK + 1 ELSE setPhaseOK
         /\ ctrl' = IF ok THEN Recorded(phase) ELSE ctrl
         /\ status' = [status EXCEPT !.Phase = phase]
         /\ IF afterSetPhase(phase) = "running"
              THEN pc' = "loop" /\ exit' = exit
              ELSE Return(afterSetPhase(phase))
    /\ UNCHANGED <<envVars, status0, phase, herr, guardVars, handlersRun,
                   calls, serialized, connVars, waitVars>>

\* A SetPhase step that classifies the exit by the phase also when the
\* call failed.
SetPhase_failureAsExit ==
    /\ pc = "SetPhase"
    /\ setPhaseCalls' = Append(setPhaseCalls, phase)
    /\ \E ok \in BOOLEAN :
         IF ok
           THEN /\ setPhaseOK' = setPhaseOK + 1
                /\ ctrl' = Recorded(phase)
                /\ status' = [status EXCEPT !.Phase = phase]
                /\ IF afterSetPhase(phase) = "running"
                     THEN pc' = "loop" /\ exit' = exit
                     ELSE Return(afterSetPhase(phase))
           ELSE /\ Return(IF afterSetPhase(phase) = "running"
                             THEN "failed to set phase"
                             ELSE afterSetPhase(phase))
                /\ UNCHANGED <<setPhaseOK, ctrl, status>>
    /\ UNCHANGED <<envVars, status0, phase, herr, guardVars, handlersRun,
                   calls, serialized, connVars, waitVars>>

\* A SetPhase step after which run() takes the time of the transition it
\* has just recorded as the PhaseChangedTime of its status.
SetPhase_refreshesStatus ==
    /\ pc = "SetPhase"
    /\ setPhaseCalls' = Append(setPhaseCalls, phase)
    /\ \E ok \in BOOLEAN :
         IF ok
           THEN /\ setPhaseOK' = setPhaseOK + 1
                /\ ctrl' = Recorded(phase)
                /\ status' = [status EXCEPT !.Phase = phase,
                                            !.PhaseChangedTime = clock]
                /\ IF afterSetPhase(phase) = "running"
                     THEN pc' = "loop" /\ exit' = exit
                     ELSE Return(afterSetPhase(phase))
           ELSE /\ Return("failed to set phase")
                /\ UNCHANGED <<setPhaseOK, ctrl, status>>
    /\ UNCHANGED <<envVars, status0, phase, herr, guardVars, handlersRun,
                   calls, serialized, connVars, waitVars>>

\* Facade.SetPhase(phase), status.Phase = phase, and the exit tests.
SetPhase ==
    /\ pc = "SetPhase"
    /\ setPhaseCalls' = Append(setPhaseCalls, phase)
    /\ \E ok \in BOOLEAN :
         IF ok
           THEN /\ setPhaseOK' = setPhaseOK + 1
                /\ ctrl' = Recorded(phase)
                /\ status' = [status EXCEPT !.Phase = phase]
                /\ IF afterSetPhase(phase) = "running"
                     THEN pc' = "loop" /\ exit' = exit
                     ELSE Return(afterSetPhase(phase))
           ELSE /\ Return("failed to set phase")
                /\ UNCHANGED <<setPhaseOK, ctrl, status>>
    /\ UNCHANGED <<envVars, status0, phase, herr, guardVars, handlersRun,
                   calls, serialized, connVars, waitVars>>

-----------------------------------------------------------------------------
Next ==
    \/ Kill
    \/ Advance
    \/ Watch
    \/ GuardDying
    \/ GuardChange
    \/ GuardNotFound
    \/ GuardUnlock
    \/ GuardStatusError
    \/ GuardStatus
    \/ Lockdown
    \/ Dispatch
    \/ PassThrough
    \/ ImportExport
    \/ ImportDial
    \/ ImportImport
    \/ ImportDialModel
    \/ ImportUpload
    \/ ValidationDial
    \/ ValidationActivate
    \/ AbortDial
    \/ AbortAbort
    \/ Reap
    \/ MinionsEnter
    \/ WatchMinionReports
    \/ MinionsDying
    \/ MinionsTimeout
    \/ MinionsChange
    \/ MinionsFetchError
    \/ MinionsChanged
    \/ MinionsLogProgress
    \/ CheckReturned
    \/ SetPhase

Spec == Init /\ [][Next]_vars

-----------------------------------------------------------------------------
(* The worker under a fair scheduler.                                      *)

\* The steps run() takes on its own: calls that return, and tests.
RunStep ==
    \/ Watch
    \/ GuardNotFound
    \/ GuardUnlock
    \/ GuardStatusError
    \/ GuardStatus
    \/ Lockdown
    \/ Dispatch
    \/ PassThrough
    \/ ImportExport
    \/ ImportDial
    \/ ImportImport
    \/ ImportDialModel
    \/ ImportUpload
    \/ ValidationDial
    \/ ValidationActivate
    \/ AbortDial
    \/ AbortAbort
    \/ Reap
    \/ MinionsEnter
    \/ WatchMinionReports
    \/ MinionsFetchError
    \/ MinionsChanged
    \/ CheckReturned
    \/ SetPhase

\* Every call the goroutine of run() makes returns, and a select whose
\* Dying case stays ready ends up taking it.
SpecFair ==
    /\ Spec
    /\ WF_vars(RunStep)
    /\ WF_vars(GuardDying)
    /\ WF_vars(MinionsDying)

\* Moreover a select whose timeout channel has fired ends up taking that
\* case.
SpecLive == SpecFair /\ WF_vars(MinionsTimeout)

-----------------------------------------------------------------------------
(* The worker from the call of New, on any Config.                         *)

\* New is about to be called.
InitNew ==
    /\ config \in Configs
    /\ newErr = "none"
    /\ pc = "New"
    /\ dying = FALSE
    /\ clock = 0
    /\ status = empty
    /\ status0 = empty
    /\ phase = "UNKNOWN"
    /\ herr = nil
    /\ exit = "running"
    /\ ctrl = NoMigration
    /\ ticks = 0
    /\ unlocks = 0
    /\ locked = FALSE
    /\ lastResp = "none"
    /\ lockdownErr = "none"
    /\ handlersRun = <<>>
    /\ setPhaseCalls = <<>>
    /\ setPhaseOK = 0
    /\ calls = <<>>
    /\ serialized = NoModel
    /\ openConns = 0
    /\ deferred = 0
    /\ timeoutAt = 0
    /\ logAt = 0
    /\ waitStart = 0
    /\ reports = zeroReports
    /\ reportEvents = 0
    /\ fetches = 0
    /\ waitErr = "none"
    /\ timeoutLog = <<>>
    /\ waitPolicy = waitForAll

NextNew == New \/ Next

SpecNew == InitNew /\ [][NextNew]_vars

-----------------------------------------------------------------------------
(* waitForMinions on its own, under either policy.                         *)

\* The state in which waitForMinions(status, policy) is called: the worker
\* holds the lockdown and an active status whose phase is status.Phase.
InitWait ==
    /\ config = ValidConfig
    /\ newErr = nil
    /\ pc = "waitForMinions"
    /\ dying = FALSE
    /\ clock = 0
    /\ status \in {s \in Statuses : s.Phase \in {"SUCCESS", "VALIDATION"}}
    /\ status0 = status
    /\ phase = status.Phase
    /\ herr = nil
    /\ exit = "running"
    /\ ctrl = [exists |-> TRUE, Phase |-> status.Phase,
               PhaseChangedTime |-> status.PhaseChangedTime]
    /\ ticks = 0
    /\ unlocks = 0
    /\ locked = TRUE
    /\ lastResp = status.Phase
    /\ lockdownErr = nil
    /\ handlersRun = <<>>
    /\ setPhaseCalls = <<>>
    /\ setPhaseOK = 0
    /\ calls = <<>>
    /\ serialized = NoModel
    /\ openConns = 0
    /\ deferred = 0
    /\ timeoutAt = 0
    /\ logAt = 0
    /\ waitStart = 0
    /\ reports = zeroReports
    /\ reportEvents = 0
    /\ fetches = 0
    /\ waitErr = "none"
    /\ timeoutLog = <<>>
    /\ waitPolicy \in {failFast, waitForAll}

NextWait ==
    \/ Kill
    \/ Advance
    \/ WaitForMinions
    \/ WatchMinionReports
    \/ MinionsDying
    \/ MinionsTimeout
    \/ MinionsChange
    \/ MinionsFetchError
    \/ MinionsChanged
    \/ MinionsLogProgress

SpecWait == InitWait /\ [][NextWait]_vars

-----------------------------------------------------------------------------
(* Properties of the phase driver.                                         *)

Last(q) == q[Len(q)]

\* The phase graph of the migration.
PhaseGraph ==
    {<<"QUIESCE", "READONLY">>, <<"QUIESCE", "ABORT">>,
     <<"READONLY", "PRECHECK">>, <<"READONLY", "ABORT">>,
     <<"PRECHECK", "IMPORT">>, <<"PRECHECK", "ABORT">>,
     <<"IMPORT", "VALIDATION">>, <<"IMPORT", "ABORT">>,
     <<"VALIDATION", "SUCCESS">>, <<"VALIDATION", "ABORT">>,
     <<"SUCCESS", "LOGTRANSFER">>, <<"LOGTRANSFER", "REAP">>,
     <<"REAP", "DONE">>, <<"REAP", "REAPFAILED">>,
     <<"ABORT", "ABORTDONE">>}

\* The initial status phase followed by every phase passed to SetPhase.
Trajectory == <<status0.Phase>> \o setPhaseCalls

\* The driver loop has been entered.
InDriver == locked

\* Every SetPhase call of the run returned nil.
NoSetPhaseError == setPhaseOK = Len(setPhaseCalls)

\* C1: in every run of the driver loop, the initial status phase followed by
\* the phases passed to SetPhase is a path of the phase graph, and no phase
\* occurs twice in it.
C1_PhaseMonotonicity ==
    InDriver =>
      /\ \A i \in 1..(Len(Trajectory) - 1) :
           <<Trajectory[i], Trajectory[i + 1]>> \in PhaseGraph
      /\ \A i, j \in 1..Len(Trajectory) :
           i < j => Trajectory[i] # Trajectory[j]

\* C1 witness: a run that passed eight phases to SetPhase, the last one DONE.
C1_Witness ==
    /\ Len(setPhaseCalls) = 8
    /\ Last(setPhaseCalls) = "DONE"
    /\ status0.Phase = "QUIESCE"

\* The worker is inside the handler of a phase, or has just left it.
InHandler ==
    pc \notin {"Watch", "guard", "GetMigrationStatus", "Unlock", "Lockdown",
               "loop", "SetPhase", "Done"}

\* C2: the handler of a phase runs only if that phase is the phase of the
\* status the guard returned or the phase of a preceding SetPhase call that
\* returned nil; between two handler invocations there is exactly one
\* successful SetPhase call; at most one handler runs at a time, the one of
\* the current phase.
C2_PersistBeforeAct ==
    /\ Len(handlersRun) >= 1 => handlersRun[1] = status0.Phase
    /\ \A i \in 2..Len(handlersRun) :
         /\ i - 1 <= setPhaseOK
         /\ handlersRun[i] = setPhaseCalls[i - 1]
    /\ setPhaseOK <= Len(handlersRun)
    /\ Len(handlersRun) <= setPhaseOK + 1
    /\ InHandler =>
         /\ Len(handlersRun) = setPhaseOK + 1
         /\ pc # "returned" => Last(handlersRun) = phase
         /\ Last(handlersRun) = status.Phase
    /\ pc = "SetPhase" => Len(handlersRun) = setPhaseOK + 1

\* C2 witness: the third handler of a run is executing.
C2_Witness ==
    /\ Len(handlersRun) = 3
    /\ setPhaseOK = 2
    /\ pc = "IMPORT_import"

AllCallsOK == \A i \in 1..Len(calls) : calls[i].ok

IsPrefix(a, b) ==
    /\ Len(a) <= Len(b)
    /\ \A i \in 1..Len(a) : a[i] = b[i]

HappyTrace ==
    <<"READONLY", "PRECHECK", "IMPORT", "VALIDATION", "SUCCESS",
      "LOGTRANSFER", "REAP", "DONE">>

\* C3 as claimed: a run from QUIESCE in which Export, both dials, Import,
\* UploadBinaries, Activate and Reap succeed, the minion wait resolves with
\* success and no Kill occurs calls SetPhase with READONLY, PRECHECK, IMPORT,
\* VALIDATION, SUCCESS, LOGTRANSFER, REAP, DONE in that order and then
\* returns ErrUninstall.
C3_HappyPathAsClaimed ==
    ( /\ InDriver
      /\ status0.Phase = "QUIESCE"
      /\ AllCallsOK
      /\ waitErr \in {"none", nil}
      /\ ~dying )
    => /\ IsPrefix(setPhaseCalls, HappyTrace)
       /\ pc = "Done" => setPhaseCalls = HappyTrace /\ exit = ErrUninstall

\* C3, amended: a run from QUIESCE in which Export, both dials, Import,
\* UploadBinaries, Activate and Reap succeed, the minion wait resolves with
\* success, no Kill occurs and every SetPhase call returns nil, calls
\* SetPhase with READONLY, PRECHECK, IMPORT, VALIDATION, SUCCESS, LOGTRANSFER,
\* REAP, DONE in that order and then returns ErrUninstall; whether or not
\* SetPhase fails, the calls made are a prefix of that sequence.
C3_HappyPath ==
    ( /\ InDriver
      /\ status0.Phase = "QUIESCE"
      /\ AllCallsOK
      /\ waitErr \in {"none", nil}
      /\ ~dying )
    => /\ IsPrefix(setPhaseCalls, HappyTrace)
       /\ (pc = "Done" /\ NoSetPhaseError)
            => setPhaseCalls = HappyTrace /\ exit = ErrUninstall
       /\ (pc = "Done" /\ ~NoSetPhaseError) => exit = "failed to set phase"

\* C3 witness: the happy path has run to its end.
C3_Witness ==
    /\ pc = "Done"
    /\ status0.Phase = "QUIESCE"
    /\ AllCallsOK
    /\ waitErr = nil
    /\ ~dying
    /\ setPhaseCalls = HappyTrace

\* C4: when Facade.Reap() fails in phase REAP (and no Kill occurs), the driver
\* calls SetPhase(REAPFAILED) and the worker returns ErrUninstall.
C4_ReapFailurePersisted ==
    ( /\ pc = "Done"
      /\ ~dying
      /\ calls # <<>>
      /\ Last(calls).op = "Reap"
      /\ ~Last(calls).ok )
    => /\ setPhaseCalls # <<>>
       /\ Last(setPhaseCalls) = "REAPFAILED"
       /\ exit = ErrUninstall

ImportFailTrace == <<"READONLY", "PRECHECK", "IMPORT", "ABORT", "ABORTDONE">>

ExportFailed ==
    /\ calls # <<>>
    /\ calls[1].op = "Export"
    /\ ~calls[1].ok

\* C5 as claimed: in a run from QUIESCE in which Facade.Export() fails, the
\* phases passed to SetPhase are READONLY, PRECHECK, IMPORT, ABORT, ABORTDONE
\* in that order (never VALIDATION or a later phase), and when no Kill occurs
\* the run makes all five calls and returns ErrDoneForNow.
C5_ImportFailsAsClaimed ==
    (InDriver /\ status0.Phase = "QUIESCE" /\ ExportFailed)
    => /\ IsPrefix(setPhaseCalls, ImportFailTrace)
       /\ (pc = "Done" /\ ~dying)
            => setPhaseCalls = ImportFailTrace /\ exit = ErrDoneForNow

\* C5, amended: in a run from QUIESCE in which Facade.Export() fails, the
\* phases passed to SetPhase are READONLY, PRECHECK, IMPORT, ABORT, ABORTDONE
\* in that order (never VALIDATION or a later phase); when no Kill occurs and
\* every SetPhase call returns nil the run makes all five calls and returns
\* ErrDoneForNow, and when no Kill occurs and a SetPhase call fails the run
\* ends at that call with "failed to set phase".
C5_ImportFails ==
    (InDriver /\ status0.Phase = "QUIESCE" /\ ExportFailed)
    => /\ IsPrefix(setPhaseCalls, ImportFailTrace)
       /\ (pc = "Done" /\ ~dying /\ NoSetPhaseError)
            => setPhaseCalls = ImportFailTrace /\ exit = ErrDoneForNow
       /\ (pc = "Done" /\ ~dying /\ ~NoSetPhaseError)
            => exit = "failed to set phase"

\* C5 witness: the run ended with ErrDoneForNow after a failed Export and a
\* failed Abort on the target.
C5_Witness ==
    /\ pc = "Done"
    /\ status0.Phase = "QUIESCE"
    /\ ExportFailed
    /\ ~Last(calls).ok
    /\ Last(calls).op = "Abort"
    /\ exit = ErrDoneForNow

\* C6: after a SetPhase(p) that returned nil the worker returns ErrUninstall
\* iff p is DONE or REAPFAILED, returns ErrDoneForNow iff p is ABORTDONE, and
\* otherwise goes round the loop with p; and the driver loop returns
\* ErrUninstall or ErrDoneForNow only when the last SetPhase call recorded
\* the corresponding terminal phase.
C6_ExitClassification ==
    /\ [][ setPhaseOK' = setPhaseOK + 1 =>
             LET p == Last(setPhaseCalls') IN
               /\ exit' = ErrUninstall <=> p \in {"DONE", "REAPFAILED"}
               /\ exit' = ErrDoneForNow <=> p = "ABORTDONE"
               /\ p \notin {"DONE", "REAPFAILED", "ABORTDONE"} =>
                    /\ exit' = "running"
                    /\ pc' = "loop"
                    /\ phase' = p
                    /\ status'.Phase = p ]_vars
    /\ [](InDriver /\ exit \in {ErrUninstall, ErrDoneForNow} =>
            /\ setPhaseCalls # <<>>
            /\ NoSetPhaseError
            /\ ctrl.Phase = Last(setPhaseCalls)
            /\ exit = ErrUninstall => Last(setPhaseCalls) \in {"DONE", "REAPFAILED"}
            /\ exit = ErrDoneForNow => Last(setPhaseCalls) = "ABORTDONE")

\* C6 witness: DONE was recorded and the worker returned ErrUninstall.
C6_Witness ==
    /\ exit = ErrUninstall
    /\ setPhaseCalls # <<>>
    /\ Last(setPhaseCalls) = "DONE"
    /\ ctrl.Phase = "DONE"

-----------------------------------------------------------------------------
(* Properties of the SUCCESS phase and of the minion wait.                 *)

Tolerated == {nil, errMinionReportFailed, errMinionReportTimeout}

\* The handler of SUCCESS was the last one to run and has returned.
SuccessHandlerReturned ==
    /\ handlersRun # <<>>
    /\ Last(handlersRun) = "SUCCESS"
    /\ waitErr # "none"

\* C7: when the minion wait of SUCCESS resolves with nil,
\* errMinionReportFailed or errMinionReportTimeout, doSUCCESS returns
\* (LOGTRANSFER, nil) and LOGTRANSFER is the phase the driver passes to
\* SetPhase; any other result of the wait makes doSUCCESS return that error,
\* no SetPhase call follows and the phase stays SUCCESS.
C7_SuccessTolerates ==
    SuccessHandlerReturned =>
      /\ pc = "returned" =>
           IF waitErr \in Tolerated
             THEN phase = "LOGTRANSFER" /\ herr = nil
             ELSE phase = "SUCCESS" /\ herr = waitErr
      /\ pc = "SetPhase" => phase = "LOGTRANSFER" /\ waitErr \in Tolerated
      /\ Len(setPhaseCalls) = Len(handlersRun) =>
           Last(setPhaseCalls) = "LOGTRANSFER" /\ waitErr \in Tolerated
      /\ waitErr \notin Tolerated =>
           /\ Len(setPhaseCalls) = Len(handlersRun) - 1
           /\ status.Phase = "SUCCESS"
           /\ ctrl.Phase = "SUCCESS"
           /\ pc = "Done" => exit = waitErr

\* C7 witness: the wait timed out and LOGTRANSFER was recorded.
C7_Witness ==
    /\ waitErr = errMinionReportTimeout
    /\ pc = "loop"
    /\ Last(setPhaseCalls) = "LOGTRANSFER"
    /\ ctrl.Phase = "LOGTRANSFER"

\* SUCCESS has been the current phase of the run.
SuccessReached ==
    \/ status0.Phase = "SUCCESS"
    \/ \E i \in 1..setPhaseOK : setPhaseCalls[i] = "SUCCESS"

\* C8: once SUCCESS is the current phase of a run, the worker calls neither
\* SetPhase(ABORT) nor SetPhase(ABORTDONE) nor Abort on the target.
C8_PointOfNoReturn ==
    [][ SuccessReached =>
          /\ Len(setPhaseCalls') > Len(setPhaseCalls) =>
               Last(setPhaseCalls') \notin {"ABORT", "ABORTDONE"}
          /\ Len(calls') > Len(calls) => Last(calls').op # "Abort" ]_vars

\* C8 witness: a run went past SUCCESS with failed minions and finished.
C8_Witness ==
    /\ SuccessReached
    /\ waitErr = errMinionReportFailed
    /\ exit = ErrUninstall

ReportMatches(r) ==
    /\ r.MigrationId = status.ModelUUID \o ":" \o ToString(status.Attempt)
    /\ r.Phase = status.Phase

ValidationErrors ==
    {"unexpected migration id in minion reports",
     "minion reports phase does not match migration phase"}

\* C9: when the reports fetched on a reports-changed event have a
\* MigrationId other than "<ModelUUID>:<Attempt>" or a Phase other than the
\* status phase, waitForMinions returns a validation error, whatever their
\* failure and unknown counts; the wait resolves with nil or
\* errMinionReportFailed, or goes on with stored reports, only when both
\* fields match.
C9_MinionIdGating ==
    /\ (pc = "returned" /\ reports \in MinionReports) =>
         /\ ~ReportMatches(reports) => waitErr \in ValidationErrors
         /\ waitErr \in {nil, errMinionReportFailed} => ReportMatches(reports)
    /\ (pc \in {"select", "GetMinionReports"} /\ reports # zeroReports) =>
         ReportMatches(reports)

\* C9 witness: reports of another attempt, with a failed machine and no
\* unknown agent, were rejected.
C9_Witness ==
    /\ pc = "returned"
    /\ reports \in MinionReports
    /\ reports.Phase = status.Phase
    /\ ~ReportMatches(reports)
    /\ reports.FailedMachines # {}
    /\ reports.UnknownCount = 0
    /\ waitErr = "unexpected migration id in minion reports"

\* C10: while waitForMinions waits, its timeout fires exactly from the
\* instant status.PhaseChangedTime + maxMinionWait on, whenever the wait was
\* entered; no progress tick and no report event moves that instant.
C10_DeadlineAnchoring ==
    pc \in {"WatchMinionReports", "select", "GetMinionReports"} =>
      /\ timeoutAt = status.PhaseChangedTime + maxMinionWait
      /\ timeoutFired <=> clock >= status.PhaseChangedTime + maxMinionWait

\* C10 witness: a wait entered one unit after the start of the run, after a
\* report event, at the instant its timeout fires.
C10_Witness ==
    /\ pc = "select"
    /\ waitStart = 1
    /\ reportEvents > 0
    /\ logAt > waitStart + minionWaitLogInterval
    /\ clock = status.PhaseChangedTime + maxMinionWait
    /\ timeoutFired

\* C11: whenever waitForMinions waits in a phase, its deadline is the instant
\* the controller last recorded a phase transition plus maxMinionWait, also
\* when this run made the transition into the phase itself.
C11_DeadlineFromTransition ==
    pc \in {"WatchMinionReports", "select", "GetMinionReports"} =>
      timeoutAt = ctrl.PhaseChangedTime + maxMinionWait

\* C12: a wait of a run that reached its phase live never times out at an
\* instant at which a worker started afresh on the controller's record of
\* that phase would still be waiting.
C12_LiveAsFresh ==
    (/\ pc = "returned"
     /\ Last(handlersRun) = "SUCCESS"
     /\ waitErr = errMinionReportTimeout) =>
      clock >= ctrl.PhaseChangedTime + maxMinionWait

\* The reports last fetched are valid, name a failed machine or unit and
\* still count unknown agents.
FailedWithUnknown ==
    /\ reports \in MinionReports
    /\ ReportMatches(reports)
    /\ failures(reports) > 0
    /\ reports.UnknownCount > 0

\* C13: under failFast, waitForMinions returns errMinionReportFailed at the
\* first reports-changed event whose valid reports name a failed machine or
\* unit, also when agents are still unknown; it never goes on waiting with
\* such reports.
C13_FailFast ==
    waitPolicy = failFast =>
      /\ (/\ pc = "returned"
          /\ reports \in MinionReports
          /\ ReportMatches(reports)
          /\ failures(reports) > 0) => waitErr = errMinionReportFailed
      /\ (pc \in {"select", "GetMinionReports"} /\ reports \in MinionReports)
           => failures(reports) = 0

\* C13 witness: a failFast wait returned errMinionReportFailed on its second
\* event, on reports that still count an unknown agent.
C13_Witness ==
    /\ waitPolicy = failFast
    /\ pc = "returned"
    /\ reportEvents = 2
    /\ FailedWithUnknown
    /\ waitErr = errMinionReportFailed

\* C14: under waitForAll, a reports-changed event resolves the wait only if
\* the valid reports count no unknown agent, with errMinionReportFailed when
\* they name a failure and nil otherwise; with unknown agents the wait goes
\* on, failures or not, and ends only by timeout, shutdown or an error.
C14_WaitForAll ==
    (/\ waitPolicy = waitForAll
     /\ pc = "returned"
     /\ Last(handlersRun) = "SUCCESS"
     /\ reports \in MinionReports
     /\ ReportMatches(reports)) =>
      /\ reports.UnknownCount = 0 =>
           waitErr = IF failures(reports) > 0
                       THEN errMinionReportFailed ELSE nil
      /\ reports.UnknownCount > 0 =>
           waitErr \in {errMinionReportTimeout, ErrDying}

\* C14 witness: the wait goes on after valid reports that name a failure and
\* count an unknown agent.
C14_Witness ==
    /\ waitPolicy = waitForAll
    /\ pc = "select"
    /\ FailedWithUnknown

-----------------------------------------------------------------------------
(* Properties of the activation guard and of the lockdown.                 *)

\* C15: when GetMigrationStatus reports NotFound the guard makes exactly one
\* Guard.Unlock call, its next step, and then either waits again or, when
\* Unlock fails, ends the worker with that error; Unlock is called at no
\* other point, and these steps call no Lockdown, run no handler and call
\* no SetPhase.
C15_NoMigration ==
    [][ /\ (pc = "GetMigrationStatus" /\ pc' # pc /\ lastResp' = "NotFound")
             => /\ pc' = "Unlock"
                /\ exit' = "running"
                /\ unlocks' = unlocks
        /\ (pc = "Unlock" /\ pc' # pc) =>
             /\ lastResp = "NotFound"
             /\ unlocks' = unlocks + 1
             /\ \/ pc' = "guard" /\ exit' = "running"
                \/ pc' = "Done" /\ exit' = "unlock"
        /\ unlocks' = unlocks + 1 => pc = "Unlock"
        /\ pc \in {"GetMigrationStatus", "Unlock"} /\ lastResp' = "NotFound"
             => UNCHANGED <<status, status0, locked, lockdownErr,
                            handlersRun, setPhaseCalls, calls>>
      ]_vars

\* C15 witness: the guard waits again after two NotFound ticks, each with
\* its Unlock.
C15_Witness ==
    /\ pc = "guard"
    /\ exit = "running"
    /\ lastResp = "NotFound"
    /\ ticks = 2
    /\ unlocks = 2

\* C16: once the guard has fetched a status with phase DONE or REAPFAILED
\* the worker has exited with ErrUninstall, and Lockdown, the handlers,
\* SetPhase and every facade or target call of the handlers (Export, Reap,
\* dials, Import, ...) were never called.
C16_ExternalCompletion ==
    lastResp \in {"DONE", "REAPFAILED"} =>
      /\ pc = "Done"
      /\ exit = ErrUninstall
      /\ lockdownErr = "none"
      /\ ~locked
      /\ handlersRun = <<>>
      /\ setPhaseCalls = <<>>
      /\ calls = <<>>
      /\ fetches = 0

\* C16 witness: the guard found REAPFAILED on its second tick and the worker
\* exited with ErrUninstall.
C16_Witness ==
    /\ lastResp = "REAPFAILED"
    /\ ticks = 2
    /\ exit = ErrUninstall

\* C17: after fetching a status with the terminal phase ABORTDONE the guard
\* has returned no status and called no Lockdown: it is waiting, or
\* fetching the status again after a further change, or the worker was shut
\* down while it waited; and the driver never holds a terminal phase as the
\* phase it started from.
C17_TerminalSkipped ==
    /\ lastResp = "ABORTDONE" =>
         /\ status = empty
         /\ lockdownErr = "none"
         /\ handlersRun = <<>>
         /\ \/ pc \in {"guard", "GetMigrationStatus"} /\ exit = "running"
            \/ pc = "Done" /\ exit = ErrDying /\ dying
    /\ (pc = "Lockdown" \/ lockdownErr # "none") =>
         status0.Phase \notin {"ABORTDONE", "DONE", "REAPFAILED"}

\* C17 witness: the guard is waiting after a tick that fetched ABORTDONE.
C17_Witness ==
    /\ lastResp = "ABORTDONE"
    /\ ctrl.Phase = "ABORTDONE"
    /\ pc = "guard"
    /\ exit = "running"
    /\ ticks = 1

\* C18: a handler has run or SetPhase was called only after the guard
\* returned an active status and Guard.Lockdown then returned nil; when
\* Lockdown returned ErrAborted the worker exited with ErrDying, when it
\* returned another error the worker exited with that error, and in both
\* cases no handler ran and SetPhase was not called.
C18_LockdownFence ==
    /\ (handlersRun # <<>> \/ setPhaseCalls # <<>> \/ calls # <<>>) =>
         /\ lockdownErr = nil
         /\ locked
         /\ status0 \in Statuses
         /\ lastResp = status0.Phase
    /\ lockdownErr # "none" => status0 \in Statuses
    /\ lockdownErr \notin {"none", nil} =>
         /\ pc = "Done"
         /\ exit = IF lockdownErr = "ErrAborted" THEN ErrDying ELSE lockdownErr
         /\ handlersRun = <<>>
         /\ setPhaseCalls = <<>>
         /\ calls = <<>>

\* C18 witness: Lockdown was aborted by the shutdown of the worker.
C18_Witness ==
    /\ lockdownErr = "ErrAborted"
    /\ exit = ErrDying
    /\ status0.Phase = "QUIESCE"

-----------------------------------------------------------------------------
(* Properties of the IMPORT and ABORT handlers.                            *)

\* The calls a handler made while the phase was p, in order.
CallsIn(p) == SelectSeq(calls, LAMBDA c : c.phase = p)

\* The five steps of doIMPORT: the operation and the model tag of the dial.
ImportSteps ==
    <<[op |-> "Export", modelTag |-> ""],
      [op |-> "APIOpen", modelTag |-> ""],
      [op |-> "Import", modelTag |-> ""],
      [op |-> "APIOpen", modelTag |-> status0.ModelUUID],
      [op |-> "UploadBinaries", modelTag |-> ""]>>

\* C19: the calls of doIMPORT are a prefix of Export, cluster-scoped dial,
\* Import, model-scoped dial, UploadBinaries, in that order, in which only
\* the last call can have failed; Import is called with the model Export
\* returned; doIMPORT returns (VALIDATION, nil) when all five calls were made
\* and succeeded, (ABORT, nil) when its last call failed, and never an error.
C19_ImportSequence ==
    /\ Len(CallsIn("IMPORT")) <= 5
    /\ \A i \in 1..Len(CallsIn("IMPORT")) :
         /\ CallsIn("IMPORT")[i].op = ImportSteps[i].op
         /\ CallsIn("IMPORT")[i].modelTag = ImportSteps[i].modelTag
         /\ i < Len(CallsIn("IMPORT")) => CallsIn("IMPORT")[i].ok
    /\ Len(CallsIn("IMPORT")) >= 3 => serialized = SerializedModel
    /\ (pc = "returned" /\ Last(handlersRun) = "IMPORT") =>
         /\ herr = nil
         /\ CallsIn("IMPORT") # <<>>
         /\ phase = IF Len(CallsIn("IMPORT")) = 5 /\ Last(CallsIn("IMPORT")).ok
                      THEN "VALIDATION" ELSE "ABORT"
         /\ phase = "ABORT" => ~Last(CallsIn("IMPORT")).ok

\* C19 witness: doIMPORT returned ABORT after its model-scoped dial failed,
\* without calling UploadBinaries.
C19_Witness ==
    /\ pc = "returned"
    /\ Last(handlersRun) = "IMPORT"
    /\ Len(CallsIn("IMPORT")) = 4
    /\ phase = "ABORT"
    /\ herr = nil

\* C20: doABORT dials the target cluster-scoped and, when the dial succeeds,
\* calls Abort; it returns (ABORTDONE, nil) whatever these calls return; a
\* run that has exited after doABORT was shut down or has passed ABORTDONE to
\* SetPhase, and exited with ErrDoneForNow exactly when that call succeeded.
C20_AbortBestEffort ==
    /\ (pc = "returned" /\ Last(handlersRun) = "ABORT") =>
         /\ phase = "ABORTDONE"
         /\ herr = nil
         /\ Len(CallsIn("ABORT")) \in {1, 2}
         /\ CallsIn("ABORT")[1].op = "APIOpen"
         /\ CallsIn("ABORT")[1].modelTag = ""
         /\ CallsIn("ABORT")[1].ok <=> Len(CallsIn("ABORT")) = 2
         /\ Len(CallsIn("ABORT")) = 2 => CallsIn("ABORT")[2].op = "Abort"
    /\ (/\ pc = "Done"
        /\ handlersRun # <<>>
        /\ Last(handlersRun) = "ABORT") =>
         \/ exit = ErrDying /\ dying
         \/ /\ setPhaseCalls # <<>>
            /\ Last(setPhaseCalls) = "ABORTDONE"
            /\ \/ exit = ErrDoneForNow /\ ctrl.Phase = "ABORTDONE"
               \/ exit = "failed to set phase" /\ ctrl.Phase = "ABORT"

\* C20 witness: ABORTDONE was persisted after a doABORT whose Abort call
\* failed.
C20_Witness ==
    /\ pc = "Done"
    /\ handlersRun # <<>>
    /\ Last(handlersRun) = "ABORT"
    /\ Len(CallsIn("ABORT")) = 2
    /\ ~CallsIn("ABORT")[2].ok
    /\ exit = ErrDoneForNow
    /\ ctrl.Phase = "ABORTDONE"

-----------------------------------------------------------------------------
(* Properties of the VALIDATION handler and of the tail of the loop.       *)

\* C21: doVALIDATION dials the target cluster-scoped and, when the dial
\* succeeds, calls Activate; it returns (SUCCESS, nil) iff the dial and
\* Activate both succeeded and (ABORT, nil) otherwise; SUCCESS is passed to
\* SetPhase only in a run whose VALIDATION handler saw Activate succeed.
C21_ValidationActivation ==
    /\ (pc = "returned" /\ Last(handlersRun) = "VALIDATION") =>
         /\ herr = nil
         /\ Len(CallsIn("VALIDATION")) \in {1, 2}
         /\ CallsIn("VALIDATION")[1].op = "APIOpen"
         /\ CallsIn("VALIDATION")[1].modelTag = ""
         /\ CallsIn("VALIDATION")[1].ok <=> Len(CallsIn("VALIDATION")) = 2
         /\ Len(CallsIn("VALIDATION")) = 2 =>
              CallsIn("VALIDATION")[2].op = "Activate"
         /\ phase = IF Last(CallsIn("VALIDATION")).op = "Activate"
                         /\ Last(CallsIn("VALIDATION")).ok
                      THEN "SUCCESS" ELSE "ABORT"
    /\ (\E i \in 1..Len(setPhaseCalls) : setPhaseCalls[i] = "SUCCESS") =>
         \E j \in 1..Len(CallsIn("VALIDATION")) :
            /\ CallsIn("VALIDATION")[j].op = "Activate"
            /\ CallsIn("VALIDATION")[j].ok

\* C21 witness: doVALIDATION returned ABORT after a successful dial and a
\* failed Activate.
C21_Witness ==
    /\ pc = "returned"
    /\ Last(handlersRun) = "VALIDATION"
    /\ Len(CallsIn("VALIDATION")) = 2
    /\ ~CallsIn("VALIDATION")[2].ok
    /\ phase = "ABORT"

\* C22: once a handler has returned a non-nil error the run is at the test
\* of that error or has returned it; no SetPhase call and no handler
\* dispatch follows the handler that failed.
C22_HandlerErrorFatal ==
    herr # nil =>
      /\ pc \in {"returned", "Done"}
      /\ pc = "Done" => exit = herr
      /\ Len(setPhaseCalls) = Len(handlersRun) - 1
      /\ ctrl.Phase = Last(handlersRun)

\* C22 witness: the run returned the error of a handler it reached by a
\* SetPhase call of its own, although it had been killed.
C22_Witness ==
    /\ herr # nil
    /\ pc = "Done"
    /\ exit = herr
    /\ dying
    /\ setPhaseCalls # <<>>

\* C23: once a SetPhase call has failed the run has returned the error
\* "failed to set phase"; that call was the last SetPhase call, no handler
\* was dispatched after it and the controller still holds the phase of the
\* last handler, also when the phase passed was terminal.
C23_SetPhaseFailureFatal ==
    ~NoSetPhaseError =>
      /\ pc = "Done"
      /\ exit = "failed to set phase"
      /\ setPhaseOK = Len(setPhaseCalls) - 1
      /\ Len(handlersRun) = Len(setPhaseCalls)
      /\ ctrl.Phase = Last(handlersRun)
      /\ ctrl.Phase # Last(setPhaseCalls)

\* C23 witness: SetPhase(DONE) failed.
C23_Witness ==
    /\ ~NoSetPhaseError
    /\ Last(setPhaseCalls) = "DONE"
    /\ exit = "failed to set phase"

\* C24: while the worker is dying inside a handler no SetPhase call is made
\* and the handler runs on or returns; when a handler has returned and the
\* worker is dying, run() returns without a SetPhase call, so that the
\* controller keeps the phase of that handler.
C24_KillMidHandler ==
    [][ (dying /\ InHandler) =>
          /\ UNCHANGED <<setPhaseCalls, setPhaseOK, ctrl, handlersRun>>
          /\ ctrl.Phase = Last(handlersRun)
          /\ IF pc = "returned" /\ clock' = clock
               THEN pc' = "Done"
               ELSE InHandler' ]_vars

\* C24 witness: a run killed inside doIMPORT returned ErrDying after the
\* handler had computed VALIDATION, which was not persisted.
C24_Witness ==
    /\ pc = "Done"
    /\ dying
    /\ exit = ErrDying
    /\ handlersRun # <<>>
    /\ Last(handlersRun) = "IMPORT"
    /\ phase = "VALIDATION"
    /\ ctrl.Phase = "IMPORT"
    /\ Len(CallsIn("IMPORT")) = 5

-----------------------------------------------------------------------------
(* Properties of the shutdown.                                             *)

\* C25: a worker that was killed while it was running has, once run()
\* returned, returned the dying outcome (ErrDying) rather than ErrUninstall,
\* ErrDoneForNow or an error of the operation in progress.
C25_KillGivesDying == (dying /\ pc = "Done") => exit = ErrDying

\* C26: once Dying is closed, a step of the worker at a select
\* point takes the Dying case: the guard returns ErrDying and the minion wait
\* returns ErrDying, no further watcher change is consumed and no
\* GetMigrationStatus, GetMinionReports or Unlock call is made.
C26_ShutdownWins ==
    [][ (dying /\ pc \in {"guard", "select"} /\ clock' = clock) =>
          \/ /\ pc = "guard"
             /\ exit' = ErrDying
             /\ UNCHANGED <<ticks, unlocks>>
          \/ /\ pc = "select"
             /\ waitErr' = ErrDying
             /\ UNCHANGED <<reportEvents, fetches>> ]_vars

-----------------------------------------------------------------------------
(* Properties of the target connections.                                   *)

\* C27: every APIOpen call is made in IMPORT, VALIDATION or ABORT with zero
\* dial options and with the addresses, certificate, tag and password of
\* the status' TargetInfo; the connection on which Import, Activate or Abort
\* is called was dialled with an empty model tag, the one handed to
\* UploadBinaries with the tag of the migrating model, and no other dial
\* carries that tag.
C27_DialPolicy ==
    /\ \A i \in 1..Len(calls) :
         calls[i].op = "APIOpen" =>
           /\ calls[i].phase \in {"IMPORT", "VALIDATION", "ABORT"}
           /\ calls[i].opts = [Timeout |-> 0, RetryDelay |-> 0]
           /\ calls[i].info.Addrs = status0.TargetInfo.Addrs
           /\ calls[i].info.CACert = status0.TargetInfo.CACert
           /\ calls[i].info.Tag = status0.TargetInfo.AuthTag
           /\ calls[i].info.Password = status0.TargetInfo.Password
           /\ calls[i].info.ModelTag \in {"", status0.ModelUUID}
           /\ calls[i].info.ModelTag = status0.ModelUUID =>
                /\ calls[i].phase = "IMPORT"
                /\ i > 1
                /\ calls[i - 1].op = "Import"
    /\ \A i \in 2..Len(calls) :
         /\ calls[i].op \in {"Import", "Activate", "Abort"} =>
              /\ calls[i - 1].op = "APIOpen"
              /\ calls[i - 1].ok
              /\ calls[i - 1].info.ModelTag = ""
         /\ calls[i].op = "UploadBinaries" =>
              /\ calls[i - 1].op = "APIOpen"
              /\ calls[i - 1].ok
              /\ calls[i - 1].info.ModelTag = status0.ModelUUID

\* C27 witness: a run has dialled for Import, for the upload and for Abort.
C27_Witness ==
    /\ Len(calls) = 7
    /\ calls[4].info.ModelTag = status0.ModelUUID
    /\ calls[6].op = "APIOpen"
    /\ calls[6].info.ModelTag = ""
    /\ calls[7].op = "Abort"

\* The worker is inside doIMPORT, doVALIDATION or doABORT.
InDialHandler ==
    pc \in {"IMPORT", "IMPORT_dial", "IMPORT_import", "IMPORT_dialModel",
            "IMPORT_upload", "VALIDATION", "VALIDATION_activate", "ABORT",
            "ABORT_abort"}

\* C28: the worker holds an open target connection only inside doIMPORT,
\* doVALIDATION or doABORT; when one of them has returned, between handlers
\* and when run() has returned, every connection that was opened is closed;
\* inside a handler every open connection has its deferred Close.
C28_ConnectionsClosed ==
    /\ ~InDialHandler => openConns = 0
    /\ openConns = deferred
    /\ openConns \in 0..2
    /\ openConns = 2 => pc = "IMPORT_upload"

\* C28 witness: doIMPORT has returned ABORT after UploadBinaries failed on
\* its two open connections.
C28_Witness ==
    /\ pc = "returned"
    /\ Last(handlersRun) = "IMPORT"
    /\ Len(CallsIn("IMPORT")) = 5
    /\ ~Last(CallsIn("IMPORT")).ok
    /\ openConns = 0

-----------------------------------------------------------------------------
(* Properties of New and of the switch of run().                           *)

NotValidErrors ==
    {"nil Facade not valid", "nil Guard not valid", "nil APIOpen not valid",
     "nil UploadBinaries not valid", "nil CharmDownloader not valid",
     "nil ToolsDownloader not valid", "nil Clock not valid"}

\* C29: once New has returned, its error is a not-valid error iff one of
\* the seven fields of the Config is nil; when it returned an error no
\* worker runs: no Facade, Guard or APIOpen call is made; and a run() that
\* has started has a Config with all seven fields set.
C29_ConfigValidation ==
    /\ newErr # "none" =>
         (newErr \in NotValidErrors <=> \E f \in DOMAIN config : ~config[f])
    /\ newErr \notin {"none", nil} =>
         /\ pc = "NotStarted"
         /\ exit = "running"
         /\ ~dying
         /\ calls = <<>>
         /\ handlersRun = <<>>
         /\ setPhaseCalls = <<>>
         /\ ticks = 0
         /\ unlocks = 0
         /\ lockdownErr = "none"
         /\ fetches = 0
    /\ pc \notin {"New", "NotStarted"} =>
         newErr = nil /\ \A f \in DOMAIN config : config[f]

\* C29 witness: New refused a Config in which only Clock is nil.
C29_Witness ==
    /\ newErr = "nil Clock not valid"
    /\ \A f \in DOMAIN config : config[f] <=> f # "Clock"
    /\ pc = "NotStarted"

\* The phase whose handler the position p of run() belongs to.
HandlerOf(p) ==
    CASE p \in {"IMPORT", "IMPORT_dial", "IMPORT_import", "IMPORT_dialModel",
                "IMPORT_upload"} -> "IMPORT"
      [] p \in {"VALIDATION", "VALIDATION_activate"} -> "VALIDATION"
      [] p \in {"ABORT", "ABORT_abort"} -> "ABORT"
      [] p \in {"SUCCESS", "WatchMinionReports", "select",
                "GetMinionReports"} -> "SUCCESS"
      [] OTHER -> p

\* C30: a run whose loop is entered with a phase that is none of QUIESCE,
\* READONLY, PRECHECK, IMPORT, VALIDATION, SUCCESS, LOGTRANSFER, REAP, ABORT
\* returns "unknown phase" and has run no handler and called no SetPhase;
\* "unknown phase" is returned in no other run; and the handler the worker
\* is in is the one of the current phase, one handler per passage of the
\* loop.
C30_UnknownPhaseFatal ==
    /\ (InDriver /\ status0.Phase \notin
          {"QUIESCE", "READONLY", "PRECHECK", "IMPORT", "VALIDATION",
           "SUCCESS", "LOGTRANSFER", "REAP", "ABORT"}) =>
         /\ pc \in {"loop", "Done"}
         /\ pc = "Done" => exit = "unknown phase"
         /\ handlersRun = <<>>
         /\ setPhaseCalls = <<>>
         /\ calls = <<>>
    /\ exit = "unknown phase" =>
         /\ InDriver
         /\ phase = status0.Phase
         /\ phase \notin {"QUIESCE", "READONLY", "PRECHECK", "IMPORT",
                          "VALIDATION", "SUCCESS", "LOGTRANSFER", "REAP",
                          "ABORT"}
    /\ (InHandler \/ pc = "SetPhase") =>
         /\ Len(handlersRun) = setPhaseOK + 1
         /\ Last(handlersRun) = status.Phase
         /\ status.Phase \in {"QUIESCE", "READONLY", "PRECHECK", "IMPORT",
                              "VALIDATION", "SUCCESS", "LOGTRANSFER", "REAP",
                              "ABORT"}
         /\ pc \notin {"returned", "SetPhase"} => HandlerOf(pc) = status.Phase

\* C30 witness: the guard returned a status with an unknown phase, Lockdown
\* returned nil and run() returned "unknown phase".
C30_Witness ==
    /\ exit = "unknown phase"
    /\ lockdownErr = nil
    /\ status0.Phase = "UNKNOWN"
    /\ handlersRun = <<>>

-----------------------------------------------------------------------------
(* Properties of the deadline and of the selector of waitForMinions.       *)

\* The message msg has x among its pieces.
Names(msg, x) == \E i \in 1..Len(msg) : msg[i] = x

\* C31: when the deadline fires before the wait resolved, waitForMinions
\* returns errMinionReportTimeout under either policy, and the message it
\* logged names the phase and the sampled unknown machines and units when
\* reports were received, or says that no agents reported in time for the
\* phase when the reports are still zero.  (doSUCCESS has just returned
\* LOGTRANSFER: the reports and the status are those of the wait.)
C31_DeadlineDiagnostic ==
    /\ timeoutLog # <<>> => waitErr = errMinionReportTimeout
    /\ (/\ pc = "returned"
        /\ phase = "LOGTRANSFER"
        /\ waitErr = errMinionReportTimeout) =>
         /\ timeoutLog # <<>>
         /\ Names(timeoutLog, status.Phase)
         /\ IF IsZero(reports)
              THEN timeoutLog[1]
                     = "no agents reported in time for migration phase "
              ELSE /\ reports.SomeUnknownMachines # <<>> =>
                        Names(timeoutLog, Join(reports.SomeUnknownMachines))
                   /\ reports.SomeUnknownUnits # <<>> =>
                        Names(timeoutLog, Join(reports.SomeUnknownUnits))

\* The worker, not the clock or the supervisor, takes a step at the select
\* of waitForMinions.
SelectStep == pc = "select" /\ UNCHANGED <<dying, clock>>

\* The four events of the select, as the step that handles them shows.
ShutdownHandled == pc' = "returned" /\ waitErr' = ErrDying
DeadlineHandled == pc' = "returned" /\ waitErr' = errMinionReportTimeout
ReportsHandled == pc' = "GetMinionReports" /\ reportEvents' = reportEvents + 1
TickHandled == pc' = "select" /\ logAt' = clock + minionWaitLogInterval
                /\ logAt' # logAt

\* The GetMinionReports call of a reports-changed event returns.
FetchStep == pc = "GetMinionReports" /\ pc' # pc

\* C32: each iteration of the select of waitForMinions handles exactly one
\* of shutdown, deadline, reports-changed and progress tick; a
\* reports-changed event makes exactly one GetMinionReports call, before
\* the select is read again, and whether the wait resolves or goes on, and
\* with what, is decided by the aggregate just fetched; a progress tick
\* re-arms itself and changes neither the stored reports nor the outcome.
C32_OneEventFullRefetch ==
    [][ /\ SelectStep =>
             Cardinality({i \in 1..4 :
                 <<ShutdownHandled, DeadlineHandled, ReportsHandled,
                   TickHandled>>[i]}) = 1
        /\ (SelectStep /\ ReportsHandled) => UNCHANGED <<fetches, reports>>
        /\ reportEvents' # reportEvents => SelectStep /\ ReportsHandled
        /\ fetches' \in {fetches, fetches + 1}
        /\ (fetches' = fetches + 1) <=> FetchStep
        /\ reportEvents' = IF pc' = "GetMinionReports"
                             THEN fetches' + 1
                             ELSE fetches'
        /\ FetchStep =>
             \/ /\ reports' = zeroReports
                /\ pc' = "returned"
                /\ waitErr' = "fetching minion reports"
             \/ /\ reports' \in MinionReports
                /\ IF reportsChanged(reports', status, waitPolicy) = "continue"
                     THEN pc' = "select" /\ waitErr' = waitErr
                     ELSE /\ pc' = "returned"
                          /\ waitErr' = reportsChanged(reports', status,
                                                       waitPolicy)
        /\ (SelectStep /\ TickHandled) =>
             UNCHANGED <<reports, waitErr, timeoutAt, reportEvents, fetches,
                         phase, herr, exit, timeoutLog>>
      ]_vars

\* C32 witness: the wait went on after its first fetch and, two ticks of the
\* clock later, its second fetch, of reports with no failure and no agent
\* unknown, has resolved it with nil.
C32_Witness ==
    /\ pc = "returned"
    /\ phase = "LOGTRANSFER"
    /\ waitPolicy = waitForAll
    /\ fetches = 2
    /\ reportEvents = 2
    /\ waitErr = nil
    /\ reports \in MinionReports
    /\ failures(reports) = 0
    /\ clock >= 2

-----------------------------------------------------------------------------
(* Properties of the side effects of a run.                                *)

\* The phase in which each operation on the facade or the target is made.
PhaseOf(op) ==
    CASE op \in {"Export", "Import", "UploadBinaries"} -> "IMPORT"
      [] op = "Activate" -> "VALIDATION"
      [] op = "Reap" -> "REAP"
      [] op = "Abort" -> "ABORT"

GatedOps == {"Export", "Import", "UploadBinaries", "Activate", "Reap", "Abort"}

\* The number of calls of op the run has made.
Count(op) == Cardinality({i \in 1..Len(calls) : calls[i].op = op})

\* C33: Export, Import and UploadBinaries are called only while the current
\* phase is IMPORT, Activate only while it is VALIDATION, WatchMinionReports
\* and GetMinionReports only while it is SUCCESS, Reap only while it is REAP
\* and Abort only while it is ABORT; each of Export, Import, UploadBinaries,
\* Activate, Reap and Abort is called at most once in a run.
C33_PhaseGatedEffects ==
    [][ /\ \A i \in (Len(calls) + 1)..Len(calls') :
             calls'[i].op \in GatedOps =>
               /\ status.Phase = PhaseOf(calls'[i].op)
               /\ phase = PhaseOf(calls'[i].op)
               /\ ctrl.Phase = PhaseOf(calls'[i].op)
        /\ (pc = "WatchMinionReports" /\ pc' # pc) => status.Phase = "SUCCESS"
        /\ fetches' # fetches => status.Phase = "SUCCESS"
        /\ \A op \in GatedOps :
             Cardinality({i \in 1..Len(calls') : calls'[i].op = op}) <= 1
      ]_vars

\* C33 witness: a run from IMPORT whose Activate failed has exported,
\* imported, uploaded, tried to activate and aborted, once each.
C33_Witness ==
    /\ pc = "Done"
    /\ status0.Phase = "IMPORT"
    /\ \A op \in GatedOps \ {"Reap"} : Count(op) = 1
    /\ Count("Reap") = 0
    /\ exit = ErrDoneForNow

\* Some call of op made before the i-th call of the run returned success.
SucceededBefore(op, i) == \E j \in 1..(i - 1) : calls[j].op = op /\ calls[j].ok

\* C34: in a run whose initial phase is VALIDATION or earlier, Reap is called
\* only after Activate returned success in that run; in a run whose initial
\* phase is IMPORT or earlier, only after Import and UploadBinaries returned
\* success as well.
C34_NoReapWithoutActivation ==
    \A i \in 1..Len(calls) :
      calls[i].op = "Reap" =>
        /\ status0.Phase \in {"QUIESCE", "READONLY", "PRECHECK", "IMPORT",
                              "VALIDATION"}
             => SucceededBefore("Activate", i)
        /\ status0.Phase \in {"QUIESCE", "READONLY", "PRECHECK", "IMPORT"}
             => /\ SucceededBefore("Import", i)
                /\ SucceededBefore("UploadBinaries", i)

\* C34 witness: a run from PRECHECK has called Reap, after the minion wait
\* timed out.
C34_Witness ==
    /\ status0.Phase = "PRECHECK"
    /\ calls # <<>>
    /\ Last(calls).op = "Reap"
    /\ waitErr = errMinionReportTimeout

-----------------------------------------------------------------------------
(* Properties of the frame of a run.                                       *)

\* C35: Guard.Unlock is called only by the activation guard, in response to
\* a NotFound answer: never once Guard.Lockdown has been called, and never in
\* response to a status with the terminal phase ABORTDONE; the lockdown a
\* run obtained is never given up, so that a run that ends with ErrDoneForNow
\* after ABORTDONE leaves the fortress locked.
C35_NoUnlockAfterLockdown ==
    [][ /\ unlocks' \in {unlocks, unlocks + 1, 0}
        /\ unlocks' = unlocks + 1 =>
             /\ pc = "Unlock"
             /\ lastResp = "NotFound"
             /\ lockdownErr = "none"
             /\ ~locked
        /\ pc' = "Unlock" => lastResp' = "NotFound" /\ lockdownErr' = "none"
        /\ unlocks' = 0 =>
             unlocks = 0 \/ (pc = "GetMigrationStatus" /\ pc' = "Lockdown")
        /\ lockdownErr # "none" => unlocks' = unlocks
        /\ (pc = "GetMigrationStatus" /\ pc' # pc /\ lastResp' = "ABORTDONE")
             => unlocks' = unlocks /\ pc' = "guard"
        /\ locked => locked'
        /\ exit' = ErrDoneForNow =>
             locked' /\ Last(setPhaseCalls') = "ABORTDONE"
      ]_vars

\* C35 witness: a run that started at VALIDATION locked the fortress,
\* aborted and ended with ErrDoneForNow, the fortress still locked.
C35_Witness ==
    /\ exit = ErrDoneForNow
    /\ locked
    /\ Last(setPhaseCalls) = "ABORTDONE"
    /\ status0.Phase = "VALIDATION"
    /\ clock >= 1

\* The guard has returned a status to run().
GuardReturned ==
    \/ pc \notin {"Watch", "guard", "GetMigrationStatus", "Unlock", "Done"}
    \/ lockdownErr # "none"

\* C36: the driver changes only the Phase field of its local status:
\* ModelUUID, Attempt, TargetInfo and PhaseChangedTime keep the values the
\* guard returned for the whole run, and GetMigrationStatus is never called
\* once the guard has returned; so the deadline of the wait in SUCCESS is
\* anchored at the PhaseChangedTime read at start-up and the reports it
\* accepts carry the migration id of the status read at start-up.
C36_StatusFrame ==
    /\ [](GuardReturned =>
            /\ status = [status0 EXCEPT !.Phase = status.Phase]
            /\ status0 \in Statuses
            /\ pc \in {"select", "GetMinionReports"} =>
                 /\ timeoutAt = status0.PhaseChangedTime + maxMinionWait
                 /\ reports \in MinionReports =>
                      reports.MigrationId = migId(status0))
    /\ [][ /\ lastResp' # lastResp => pc = "GetMigrationStatus"
           /\ GuardReturned =>
                /\ pc' # "GetMigrationStatus"
                /\ UNCHANGED <<status0, ticks, lastResp>>
         ]_vars

\* C36 witness: a run that started at IMPORT is waiting for minions in
\* SUCCESS, two phases later and after the clock has advanced, with reports
\* it has accepted.
C36_Witness ==
    /\ pc = "select"
    /\ status0.Phase = "IMPORT"
    /\ status.Phase = "SUCCESS"
    /\ ctrl.PhaseChangedTime > status.PhaseChangedTime
    /\ reports \in MinionReports

\* waitForMinions has just returned to run(), through doSUCCESS.
WaitJustReturned == pc = "returned" /\ phase = "LOGTRANSFER" /\ waitErr # "none"

\* C37: under waitForAll, valid reports that show failures while agents are
\* still unknown never resolve the wait: the wait goes on after each of them
\* and, when such reports are the last it fetched, it ends with
\* errMinionReportTimeout (or by shutdown); errMinionReportFailed is
\* returned only on reports whose UnknownCount is 0.
C37_FailuresWaitForUnknown ==
    /\ [](waitPolicy = waitForAll =>
            /\ (WaitJustReturned /\ waitErr = errMinionReportFailed) =>
                 reports.UnknownCount = 0 /\ failures(reports) > 0
            /\ (WaitJustReturned /\ FailedWithUnknown) =>
                 waitErr \in {errMinionReportTimeout, ErrDying}
            /\ (WaitJustReturned /\ FailedWithUnknown /\ ~dying) =>
                 waitErr = errMinionReportTimeout)
    /\ [][ (/\ waitPolicy = waitForAll
            /\ FetchStep
            /\ reports'.UnknownCount > 0
            /\ failures(reports') > 0
            /\ validateMinionReports(reports', status) = nil)
           => pc' = "select" /\ waitErr' = "none"
         ]_vars

\* C37 witness: a waitForAll wait fetched twice, the second time reports with
\* a failure and an unknown agent, and ended at its deadline with
\* errMinionReportTimeout.
C37_Witness ==
    /\ waitPolicy = waitForAll
    /\ WaitJustReturned
    /\ reportEvents = 2
    /\ FailedWithUnknown
    /\ waitErr = errMinionReportTimeout
    /\ ~dying

-----------------------------------------------------------------------------
(* Termination of the driver.                                              *)

\* The errors that end a run once Lockdown has returned, besides the three
\* named outcomes.
FatalErrors ==
    {"lockdown", "unknown phase", "failed to set phase", "reap",
     "watching minion reports", "catacomb.Add", "fetching minion reports",
     "unexpected migration id in minion reports",
     "minion reports phase does not match migration phase"}

\* Whenever the worker waits for minions, the clock gets past the deadline.
DeadlineFires == []<>(pc = "select" => timeoutFired)

\* C38: once the guard has returned an active status and Lockdown has
\* returned, if every call returns and the deadline of the minion wait
\* eventually fires, run() returns, with ErrUninstall, ErrDoneForNow,
\* ErrDying or a fatal error, after at most 8 SetPhase calls.
C38_Termination ==
    /\ [](/\ Len(setPhaseCalls) <= 8
          /\ (pc = "Done" /\ lockdownErr # "none") =>
               exit \in {ErrUninstall, ErrDoneForNow, ErrDying}
                          \cup FatalErrors)
    /\ DeadlineFires => ((lockdownErr # "none") ~> (pc = "Done"))

\* C38 witness: a run that started at QUIESCE and waited for minions until
\* the deadline has returned after 8 SetPhase calls.
C38_Witness ==
    /\ pc = "Done"
    /\ exit = ErrUninstall
    /\ status0.Phase = "QUIESCE"
    /\ Len(setPhaseCalls) = 8
    /\ waitErr = errMinionReportTimeout

====
